---- MODULE Spec2Model ----
(***************************************************************************)
(* A model of the AI-Hoshino timetabling engine: the Schedule (State) with *)
(* its randomized fill and neighbour generators, the penalty evaluator,    *)
(* hill climbing, simulated annealing and the genetic search.              *)
(*                                                                         *)
(* Penalties are floats in the program.  Every penalty the evaluator can   *)
(* produce is a sum of integers and of the weights 1.75, 1.50, 1.25 and    *)
(* 1.0, i.e. a multiple of 0.25, which binary floating point adds exactly. *)
(* The model therefore carries every penalty in QUARTER units (penalty*4)  *)
(* as an integer.                                                          *)
(*                                                                         *)
(* Python object identity matters for Room (state.py compares rooms with   *)
(* ==, and Room defines no __eq__): a room reference is modelled as        *)
(* [code, obj] where obj = 0 is the catalog's own Room object and obj >= 1 *)
(* is a copy made by copy.deepcopy, numbered canonically per schedule.     *)
(***************************************************************************)
EXTENDS Integers, Sequences, FiniteSets, Bags, TLC

VARIABLES
    cat,            \* index of the catalog (classes, rooms, students) in use
    pc,             \* position of the running program
    state,          \* the State being filled / the schedule under evaluation
    ci,             \* random_fill: index of the class being allocated
    hours_to_allocate, \* random_fill: hours left for the current class
    total_penalty,  \* results of ObjectiveFunction.calculate, per toggle setting
    variant,        \* HillClimbing.solve: the variant asked for
    max_iterations, \* the iteration budget of the search
    current_state,  \* the schedule the search stands on
    current_value,  \* its penalty
    best_state,     \* the retained best schedule
    best_value,     \* its penalty
    history,        \* best penalty per iteration
    iteration,      \* loop counter of the search (i in hill_climb.py)
    best_is_current, \* best_state and current_state are one and the same State object
    max_sideways_moves, \* sideways move: plateau steps allowed
    sideways_moves,   \* sideways move: plateau steps taken since the last improvement
    stagnation_count, \* sideways move: iterations without any move
    max_restarts,     \* random restart: restarts allowed
    restart_variant,  \* random restart: the variant every restart runs
    restart,          \* random restart: number of the restart under way (i + 1), 0 before the loop
    best_state_overall, \* random restart: best schedule over all restarts
    best_value_overall, \* random restart: its penalty
    best_history_so_far, \* random restart: history of the best restart
    iterations_per_restart, \* random restart: len(history) of every restart
    results,        \* the result record returned by the search
    current_penalty,  \* simulated annealing: penalty of the current schedule
    neighbor_penalty, \* simulated annealing: penalty of the proposed neighbour
    temperature,      \* simulated annealing: the temperature, a decimal
    accept_prob,      \* simulated annealing: outcome of acceptance_probability
    sa,               \* simulated annealing: the SimulatedAnnealing object (parameters, histories)
    verbose,          \* simulated annealing: the argument of run
    sa_best_penalty,  \* simulated annealing: penalty of the retained best (best_penalty)
    last_stuck_check, \* simulated annealing: iteration of the last local-optimum check
    population_size,  \* genetic algorithm: individuals per generation
    generations,      \* genetic algorithm: generations to evolve
    population,       \* genetic algorithm: the current generation
    fitnesses,        \* genetic algorithm: fitness of each individual
    generation,       \* genetic algorithm: loop counter of optimize
    best_penalty_history, \* genetic algorithm: best penalty per generation
    new_population,   \* genetic algorithm: the generation being built
    new_fitnesses,    \* genetic algorithm: its fitnesses
    parent1,          \* crossover: first parent
    parent2,          \* crossover: second parent
    child1,           \* crossover: first child
    child2,           \* crossover: second child
    gui,              \* SchedulerGUI: is_running, cancel_requested, algorithm_results
    random_neighbor,  \* what get_random_neighbor returned, called on state
    all_neighbors,    \* what get_all_neighbors returned, called on state
    heap,             \* genetic algorithm: the State, Allocation and TimeSlot objects by identity
    memo,             \* genetic algorithm: _fitness_cache, _penalty_cache and the last value returned
    runs              \* simulated annealing: two calls of run on the same draws, by their verbose argument

fillVars == <<state, ci, hours_to_allocate>>
annealVars == <<current_penalty, neighbor_penalty, temperature, accept_prob>>
gaVars == <<population_size, generations, population, fitnesses, generation,
            best_penalty_history, new_population, new_fitnesses>>
crossVars == <<parent1, parent2, child1, child2>>
hcVars == <<variant, max_iterations, current_state, current_value, best_state,
            best_value, history, iteration, best_is_current>>
sidewaysVars == <<max_sideways_moves, sideways_moves, stagnation_count>>
restartVars == <<max_restarts, restart_variant, restart, best_state_overall,
                 best_value_overall, best_history_so_far, iterations_per_restart>>
runVars == <<sa, verbose, sa_best_penalty, last_stuck_check>>
neighborVars == <<random_neighbor, all_neighbors>>
objectVars == <<heap, memo, runs>>
searchVars == <<hcVars, results, annealVars, gaVars, crossVars, sidewaysVars,
                restartVars, runVars, gui, neighborVars, objectVars>>

vars == <<cat, pc, fillVars, total_penalty, searchVars>>

----------------------------------------------------------------------------
(* Bounds of the model *)

\* random draws of a day are taken from 0..MaxDrawDay (the program: 0..4)
MaxDrawDay == 0
\* random draws of a start hour are taken from the last DrawSpan start hours
\* (the program: 7..17); the late hours are where 18 - start_hour bites
DrawSpan == 3
\* longest schedule handed to the penalty evaluator on its own
MaxMeetings == 3
\* largest max_iterations a search is started with
MaxIterations == 2
\* penalties handed to acceptance_probability range over 0..MaxPenalty
\* quarter units
MaxPenalty == 3
\* largest population_size the genetic algorithm is run with
MaxPopulation == 2
\* largest number of generations the genetic algorithm is run for
MaxGenerations == 2

(* Program constants *)
FirstHour == 7
LastStartHour == 17
LastHour == 18
MaxDuration == 3
LastWeekday == 4

----------------------------------------------------------------------------
(* Catalogs: what the loader hands to the engine (every class lists as    *)
(* many students as its studentCount, every capacity is positive).        *)
(* Catalog 1 has students of priorities 1..4 and a class without credits, *)
(* catalog 2 has a single room too small for class A, catalog 3 has a     *)
(* class long enough to be allocated in blocks of three hours, catalog 4  *)
(* has two one-hour classes sharing a student and two rooms of different  *)
(* size, catalogs 5 and 6 have two one-hour classes and one room, which   *)
(* class A fits in catalog 5 and overflows in catalog 6.  Catalog 7 is    *)
(* handed to the evaluator by a caller that has no student lists: classes *)
(* carry their studentCount only.  Catalog 8 is the single one-hour class *)
(* of 20 students with a single room of 10 seats, and catalog 9 has a     *)
(* room and no class at all.  Catalog 10 fills the week: twenty classes   *)
(* X0..X19 of 8 students that fit room R1 only and twenty classes Z0..Z19 *)
(* of 7 students that fit both rooms, of 3 or 2 credits; class Xi shares  *)
(* a student with every class Zk but Zi (student "s<p><u><v>" takes the X *)
(* classes whose digit p is u and the Z classes whose digit p is v, the   *)
(* digits of i being i % 5 and i \div 5).                                 *)

\* the catalogs the searches are run on
SearchCatalogs == {2, 4}
\* the catalogs the penalty evaluator is run on
ObjCatalogs == {1, 2, 7}
\* the catalogs the genetic algorithm is run on
GACatalogs == {5, 6, 8}
\* the catalogs the crossover parents are drawn from
CrossCatalogs == {2}
\* the catalogs whose classes fill the week
WeekCatalogs == {10}

WeekCatalog ==
    [ classes |->
        <<"X0", "X1", "X2", "X3", "X4", "X5", "X6", "X7", "X8", "X9", "X10",
          "X11", "X12", "X13", "X14", "X15", "X16", "X17", "X18", "X19", "Z0",
          "Z1", "Z2", "Z3", "Z4", "Z5", "Z6", "Z7", "Z8", "Z9", "Z10", "Z11",
          "Z12", "Z13", "Z14", "Z15", "Z16", "Z17", "Z18", "Z19">>,
      credits |->
        [X0 |-> 3, X1 |-> 3, X2 |-> 3, X3 |-> 2, X4 |-> 3, X5 |-> 3, X6 |-> 3,
         X7 |-> 2, X8 |-> 3, X9 |-> 3, X10 |-> 3, X11 |-> 2, X12 |-> 3,
         X13 |-> 3, X14 |-> 3, X15 |-> 2, X16 |-> 3, X17 |-> 3, X18 |-> 3,
         X19 |-> 2, Z0 |-> 3, Z1 |-> 3, Z2 |-> 3, Z3 |-> 2, Z4 |-> 3, Z5 |-> 3,
         Z6 |-> 3, Z7 |-> 2, Z8 |-> 3, Z9 |-> 3, Z10 |-> 3, Z11 |-> 2,
         Z12 |-> 3, Z13 |-> 3, Z14 |-> 3, Z15 |-> 2, Z16 |-> 3, Z17 |-> 3,
         Z18 |-> 3, Z19 |-> 2],
      studentCount |->
        [X0 |-> 8, X1 |-> 8, X2 |-> 8, X3 |-> 8, X4 |-> 8, X5 |-> 8, X6 |-> 8,
         X7 |-> 8, X8 |-> 8, X9 |-> 8, X10 |-> 8, X11 |-> 8, X12 |-> 8,
         X13 |-> 8, X14 |-> 8, X15 |-> 8, X16 |-> 8, X17 |-> 8, X18 |-> 8,
         X19 |-> 8, Z0 |-> 7, Z1 |-> 7, Z2 |-> 7, Z3 |-> 7, Z4 |-> 7, Z5 |-> 7,
         Z6 |-> 7, Z7 |-> 7, Z8 |-> 7, Z9 |-> 7, Z10 |-> 7, Z11 |-> 7,
         Z12 |-> 7, Z13 |-> 7, Z14 |-> 7, Z15 |-> 7, Z16 |-> 7, Z17 |-> 7,
         Z18 |-> 7, Z19 |-> 7],
      students |->
        [X0 |-> <<"f0", "s101", "s102", "s103", "s104", "s201", "s202", "s203">>,
         X1 |-> <<"f0", "s110", "s112", "s113", "s114", "s201", "s202", "s203">>,
         X2 |-> <<"f0", "s120", "s121", "s123", "s124", "s201", "s202", "s203">>,
         X3 |-> <<"f0", "s130", "s131", "s132", "s134", "s201", "s202", "s203">>,
         X4 |-> <<"f0", "s140", "s141", "s142", "s143", "s201", "s202", "s203">>,
         X5 |-> <<"f1", "s101", "s102", "s103", "s104", "s210", "s212", "s213">>,
         X6 |-> <<"f1", "s110", "s112", "s113", "s114", "s210", "s212", "s213">>,
         X7 |-> <<"f1", "s120", "s121", "s123", "s124", "s210", "s212", "s213">>,
         X8 |-> <<"f1", "s130", "s131", "s132", "s134", "s210", "s212", "s213">>,
         X9 |-> <<"f1", "s140", "s141", "s142", "s143", "s210", "s212", "s213">>,
         X10 |-> <<"f2", "s101", "s102", "s103", "s104", "s220", "s221", "s223">>,
         X11 |-> <<"f2", "s110", "s112", "s113", "s114", "s220", "s221", "s223">>,
         X12 |-> <<"f2", "s120", "s121", "s123", "s124", "s220", "s221", "s223">>,
         X13 |-> <<"f2", "s130", "s131", "s132", "s134", "s220", "s221", "s223">>,
         X14 |-> <<"f2", "s140", "s141", "s142", "s143", "s220", "s221", "s223">>,
         X15 |-> <<"f3", "s101", "s102", "s103", "s104", "s230", "s231", "s232">>,
         X16 |-> <<"f3", "s110", "s112", "s113", "s114", "s230", "s231", "s232">>,
         X17 |-> <<"f3", "s120", "s121", "s123", "s124", "s230", "s231", "s232">>,
         X18 |-> <<"f3", "s130", "s131", "s132", "s134", "s230", "s231", "s232">>,
         X19 |-> <<"f3", "s140", "s141", "s142", "s143", "s230", "s231", "s232">>,
         Z0 |-> <<"s110", "s120", "s130", "s140", "s210", "s220", "s230">>,
         Z1 |-> <<"s101", "s121", "s131", "s141", "s210", "s220", "s230">>,
         Z2 |-> <<"s102", "s112", "s132", "s142", "s210", "s220", "s230">>,
         Z3 |-> <<"s103", "s113", "s123", "s143", "s210", "s220", "s230">>,
         Z4 |-> <<"s104", "s114", "s124", "s134", "s210", "s220", "s230">>,
         Z5 |-> <<"s110", "s120", "s130", "s140", "s201", "s221", "s231">>,
         Z6 |-> <<"s101", "s121", "s131", "s141", "s201", "s221", "s231">>,
         Z7 |-> <<"s102", "s112", "s132", "s142", "s201", "s221", "s231">>,
         Z8 |-> <<"s103", "s113", "s123", "s143", "s201", "s221", "s231">>,
         Z9 |-> <<"s104", "s114", "s124", "s134", "s201", "s221", "s231">>,
         Z10 |-> <<"s110", "s120", "s130", "s140", "s202", "s212", "s232">>,
         Z11 |-> <<"s101", "s121", "s131", "s141", "s202", "s212", "s232">>,
         Z12 |-> <<"s102", "s112", "s132", "s142", "s202", "s212", "s232">>,
         Z13 |-> <<"s103", "s113", "s123", "s143", "s202", "s212", "s232">>,
         Z14 |-> <<"s104", "s114", "s124", "s134", "s202", "s212", "s232">>,
         Z15 |-> <<"s110", "s120", "s130", "s140", "s203", "s213", "s223">>,
         Z16 |-> <<"s101", "s121", "s131", "s141", "s203", "s213", "s223">>,
         Z17 |-> <<"s102", "s112", "s132", "s142", "s203", "s213", "s223">>,
         Z18 |-> <<"s103", "s113", "s123", "s143", "s203", "s213", "s223">>,
         Z19 |-> <<"s104", "s114", "s124", "s134", "s203", "s213", "s223">>],
      prefs |->
        [f0 |-> <<"X0", "X1", "X2", "X3", "X4">>,
         f1 |-> <<"X5", "X6", "X7", "X8", "X9">>,
         f2 |-> <<"X10", "X11", "X12", "X13", "X14">>,
         f3 |-> <<"X15", "X16", "X17", "X18", "X19">>,
         s101 |-> <<"X0", "X5", "X10", "X15", "Z1", "Z6", "Z11", "Z16">>,
         s102 |-> <<"X0", "X5", "X10", "X15", "Z2", "Z7", "Z12", "Z17">>,
         s103 |-> <<"X0", "X5", "X10", "X15", "Z3", "Z8", "Z13", "Z18">>,
         s104 |-> <<"X0", "X5", "X10", "X15", "Z4", "Z9", "Z14", "Z19">>,
         s110 |-> <<"X1", "X6", "X11", "X16", "Z0", "Z5", "Z10", "Z15">>,
         s112 |-> <<"X1", "X6", "X11", "X16", "Z2", "Z7", "Z12", "Z17">>,
         s113 |-> <<"X1", "X6", "X11", "X16", "Z3", "Z8", "Z13", "Z18">>,
         s114 |-> <<"X1", "X6", "X11", "X16", "Z4", "Z9", "Z14", "Z19">>,
         s120 |-> <<"X2", "X7", "X12", "X17", "Z0", "Z5", "Z10", "Z15">>,
         s121 |-> <<"X2", "X7", "X12", "X17", "Z1", "Z6", "Z11", "Z16">>,
         s123 |-> <<"X2", "X7", "X12", "X17", "Z3", "Z8", "Z13", "Z18">>,
         s124 |-> <<"X2", "X7", "X12", "X17", "Z4", "Z9", "Z14", "Z19">>,
         s130 |-> <<"X3", "X8", "X13", "X18", "Z0", "Z5", "Z10", "Z15">>,
         s131 |-> <<"X3", "X8", "X13", "X18", "Z1", "Z6", "Z11", "Z16">>,
         s132 |-> <<"X3", "X8", "X13", "X18", "Z2", "Z7", "Z12", "Z17">>,
         s134 |-> <<"X3", "X8", "X13", "X18", "Z4", "Z9", "Z14", "Z19">>,
         s140 |-> <<"X4", "X9", "X14", "X19", "Z0", "Z5", "Z10", "Z15">>,
         s141 |-> <<"X4", "X9", "X14", "X19", "Z1", "Z6", "Z11", "Z16">>,
         s142 |-> <<"X4", "X9", "X14", "X19", "Z2", "Z7", "Z12", "Z17">>,
         s143 |-> <<"X4", "X9", "X14", "X19", "Z3", "Z8", "Z13", "Z18">>,
         s201 |-> <<"X0", "X1", "X2", "X3", "X4", "Z5", "Z6", "Z7", "Z8", "Z9">>,
         s202 |-> <<"X0", "X1", "X2", "X3", "X4", "Z10", "Z11", "Z12", "Z13",
                    "Z14">>,
         s203 |-> <<"X0", "X1", "X2", "X3", "X4", "Z15", "Z16", "Z17", "Z18",
                    "Z19">>,
         s210 |-> <<"X5", "X6", "X7", "X8", "X9", "Z0", "Z1", "Z2", "Z3", "Z4">>,
         s212 |-> <<"X5", "X6", "X7", "X8", "X9", "Z10", "Z11", "Z12", "Z13",
                    "Z14">>,
         s213 |-> <<"X5", "X6", "X7", "X8", "X9", "Z15", "Z16", "Z17", "Z18",
                    "Z19">>,
         s220 |-> <<"X10", "X11", "X12", "X13", "X14", "Z0", "Z1", "Z2", "Z3",
                    "Z4">>,
         s221 |-> <<"X10", "X11", "X12", "X13", "X14", "Z5", "Z6", "Z7", "Z8",
                    "Z9">>,
         s223 |-> <<"X10", "X11", "X12", "X13", "X14", "Z15", "Z16", "Z17",
                    "Z18", "Z19">>,
         s230 |-> <<"X15", "X16", "X17", "X18", "X19", "Z0", "Z1", "Z2", "Z3",
                    "Z4">>,
         s231 |-> <<"X15", "X16", "X17", "X18", "X19", "Z5", "Z6", "Z7", "Z8",
                    "Z9">>,
         s232 |-> <<"X15", "X16", "X17", "X18", "X19", "Z10", "Z11", "Z12",
                    "Z13", "Z14">>],
      rooms    |-> <<"R1", "R2">>,
      capacity |-> [R1 |-> 8, R2 |-> 7] ]

Catalogs ==
    << [ classes      |-> <<"A", "B", "Z">>,
         credits      |-> [A |-> 2, B |-> 1, Z |-> 0],
         studentCount |-> [A |-> 2, B |-> 2, Z |-> 0],
         students     |-> [A |-> <<"s1", "s2">>, B |-> <<"s1", "s3">>, Z |-> <<>>],
         prefs        |-> [s1 |-> <<"A", "B">>,
                           s2 |-> <<"X", "Y", "A">>,
                           s3 |-> <<"X", "Y", "W", "B">>],
         rooms        |-> <<"R1", "R2">>,
         capacity     |-> [R1 |-> 1, R2 |-> 3] ],
       [ classes      |-> <<"A", "B">>,
         credits      |-> [A |-> 2, B |-> 1],
         studentCount |-> [A |-> 2, B |-> 1],
         students     |-> [A |-> <<"s1", "s2">>, B |-> <<"s1">>],
         prefs        |-> [s1 |-> <<"A", "B">>, s2 |-> <<"A">>],
         rooms        |-> <<"R1">>,
         capacity     |-> [R1 |-> 1] ],
       [ classes      |-> <<"Z", "A">>,
         credits      |-> [A |-> 4, Z |-> 0],
         studentCount |-> [A |-> 2, Z |-> 0],
         students     |-> [A |-> <<"s1", "s2">>, Z |-> <<>>],
         prefs        |-> [s1 |-> <<"A">>, s2 |-> <<"A">>],
         rooms        |-> <<"R1">>,
         capacity     |-> [R1 |-> 10] ],
       [ classes      |-> <<"A", "B">>,
         credits      |-> [A |-> 1, B |-> 1],
         studentCount |-> [A |-> 2, B |-> 1],
         students     |-> [A |-> <<"s1", "s2">>, B |-> <<"s1">>],
         prefs        |-> [s1 |-> <<"B", "A">>, s2 |-> <<"A">>],
         rooms        |-> <<"R1", "R2">>,
         capacity     |-> [R1 |-> 1, R2 |-> 2] ],
       [ classes      |-> <<"A", "B">>,
         credits      |-> [A |-> 1, B |-> 1],
         studentCount |-> [A |-> 1, B |-> 1],
         students     |-> [A |-> <<"s1">>, B |-> <<"s1">>],
         prefs        |-> [s1 |-> <<"A", "B">>],
         rooms        |-> <<"R1">>,
         capacity     |-> [R1 |-> 1] ],
       [ classes      |-> <<"A", "B">>,
         credits      |-> [A |-> 1, B |-> 1],
         studentCount |-> [A |-> 2, B |-> 1],
         students     |-> [A |-> <<"s1", "s2">>, B |-> <<"s1">>],
         prefs        |-> [s1 |-> <<"A", "B">>, s2 |-> <<"A">>],
         rooms        |-> <<"R1">>,
         capacity     |-> [R1 |-> 1] ],
       [ classes      |-> <<"A", "B">>,
         credits      |-> [A |-> 2, B |-> 1],
         studentCount |-> [A |-> 10, B |-> 5],
         students     |-> [A |-> <<>>, B |-> <<>>],
         prefs        |-> [s1 |-> <<>>],
         rooms        |-> <<"R1">>,
         capacity     |-> [R1 |-> 10] ],
       [ classes      |-> <<"A">>,
         credits      |-> [A |-> 1],
         studentCount |-> [A |-> 20],
         students     |-> [A |-> <<>>],
         prefs        |-> [s1 |-> <<>>],
         rooms        |-> <<"R1">>,
         capacity     |-> [R1 |-> 10] ],
       [ classes      |-> <<>>,
         credits      |-> [code \in {} |-> 0],
         studentCount |-> [code \in {} |-> 0],
         students     |-> [code \in {} |-> <<>>],
         prefs        |-> [s1 |-> <<>>],
         rooms        |-> <<"R1">>,
         capacity     |-> [R1 |-> 10] ],
       WeekCatalog >>

\* the catalogs random_fill is explored on, draw by draw
FillCatalogs == (1..Len(Catalogs)) \ WeekCatalogs

Range(s) == {s[i] : i \in 1..Len(s)}

Min(a, b) == IF a < b THEN a ELSE b
Max(a, b) == IF a > b THEN a ELSE b

RECURSIVE SumSeq(_)
SumSeq(s) == IF s = <<>> THEN 0 ELSE Head(s) + SumSeq(Tail(s))

\* the sum of the values of a function: the positive terms less the negative
\* ones, each counted as the size of a bag holding v[x] copies of x
SumValues(v) ==
    BagCardinality([x \in {y \in DOMAIN v : v[y] > 0} |-> v[x]])
        - BagCardinality([x \in {y \in DOMAIN v : v[y] < 0} |-> 0 - v[x]])

\* the sum of f[x] over x in S
SumOver(S, f) == SumValues([x \in S |-> f[x]] @@ <<>>)

----------------------------------------------------------------------------
(* Domain model *)

\* TimeSlot(day, start_hour, end_hour)
TimeSlot(day, start_hour, end_hour) ==
    [day |-> day, start_hour |-> start_hour, end_hour |-> end_hour]

\* TimeSlot.duration
duration(ts) == ts.end_hour - ts.start_hour

\* a reference to a Room object: the catalog's own (obj = 0) or a copy
Room(code, obj) == [code |-> code, obj |-> obj]

\* State.Allocation(course_class, time_slot, room)
Allocation(course_class, time_slot, room) ==
    [course_class |-> course_class, time_slot |-> time_slot, room |-> room]

\* Student.get_priority: 1-based rank, len+1 when not enrolled
get_priority(c, sid, class_code) ==
    LET classes == Catalogs[c].prefs[sid]
        hits == {k \in 1..Len(classes) : classes[k] = class_code}
    IN  IF hits = {} THEN Len(classes) + 1
        ELSE CHOOSE k \in hits : \A j \in hits : k <= j

----------------------------------------------------------------------------
(* Penalty evaluator (quarter units) *)

\* ObjectiveFunction.PRIORITY_WEIGHTS.get(priority, 1.0), times 4
PRIORITY_WEIGHTS(priority) ==
    CASE priority = 1 -> 7
      [] priority = 2 -> 6
      [] priority = 3 -> 5
      [] OTHER -> 4

\* (mutant) the overlap of two meetings is charged whatever their days
PairOverlapAnyDay(meetings, i, j) ==
    LET m1 == meetings[i].time_slot
        m2 == meetings[j].time_slot
        overlap_start == Max(m1.start_hour, m2.start_hour)
        overlap_end == Min(m1.end_hour, m2.end_hour)
    IN  IF overlap_start < overlap_end
        THEN overlap_end - overlap_start
        ELSE 0

\* the pair loop of calculate_time_conflict_penalty over one student's meetings
PairOverlap(meetings, i, j) ==
    LET m1 == meetings[i].time_slot
        m2 == meetings[j].time_slot
        overlap_start == Max(m1.start_hour, m2.start_hour)
        overlap_end == Min(m1.end_hour, m2.end_hour)
    IN  IF m1.day = m2.day /\ overlap_start < overlap_end
        THEN overlap_end - overlap_start
        ELSE 0

\* (mutant) only neighbouring meetings of the list are compared
RECURSIVE PairSumAdjacent(_, _, _)
PairSumAdjacent(meetings, i, j) ==
    IF i >= Len(meetings) THEN 0
    ELSE PairOverlap(meetings, i, i + 1) + PairSumAdjacent(meetings, i + 1, i + 2)

RECURSIVE PairSum(_, _, _)
PairSum(meetings, i, j) ==
    IF i > Len(meetings) THEN 0
    ELSE IF j > Len(meetings) THEN PairSum(meetings, i + 1, i + 2)
    ELSE PairOverlap(meetings, i, j) + PairSum(meetings, i, j + 1)

calculate_time_conflict_penalty(c, s) ==
    LET enrolled(m) == Range(Catalogs[c].students[m.course_class])
        ids == UNION {enrolled(s[k]) : k \in 1..Len(s)}
        student_meetings(sid) == SelectSeq(s, LAMBDA m : sid \in enrolled(m))
        conflicts == [sid \in ids |-> PairSum(student_meetings(sid), 1, 2)]
    IN  4 * SumOver(ids, conflicts)

\* (mutant) every class is charged 1.75 times its studentCount
MeetingWeightByCount(c, m) ==
    PRIORITY_WEIGHTS(1) * Catalogs[c].studentCount[m.course_class]

\* weighted headcount of one meeting in a conflicting cell
MeetingWeight(c, m) ==
    LET students == Catalogs[c].students[m.course_class]
        weight == [k \in 1..Len(students) |->
                      PRIORITY_WEIGHTS(get_priority(c, students[k], m.course_class))]
    IN  IF students # <<>>
        THEN SumOver(1..Len(students), weight)
        ELSE PRIORITY_WEIGHTS(1) * Catalogs[c].studentCount[m.course_class]

calculate_room_conflict_penalty(c, s) ==
    LET covers(m, key) ==
            /\ m.room.code = key[1]
            /\ m.time_slot.day = key[2]
            /\ key[3] >= m.time_slot.start_hour
            /\ key[3] < m.time_slot.end_hour
        keys == UNION { {<<s[k].room.code, s[k].time_slot.day, h>> :
                           h \in s[k].time_slot.start_hour..(s[k].time_slot.end_hour - 1)}
                        : k \in 1..Len(s) }
        meetings(key) == SelectSeq(s, LAMBDA m : covers(m, key))
        hour_penalty ==
            [key \in keys |->
                LET ms == meetings(key)
                    w == [k \in 1..Len(ms) |-> MeetingWeight(c, ms[k])]
                IN  IF Len(ms) > 1 THEN SumOver(1..Len(ms), w) ELSE 0]
    IN  SumOver(keys, hour_penalty)

\* (mutant) the overflow is charged without the student_count > room_capacity guard
capacity_penalty_unguarded(c, s) ==
    LET over == [k \in 1..Len(s) |->
            (Catalogs[c].studentCount[s[k].course_class]
               - Catalogs[c].capacity[s[k].room.code]) * duration(s[k].time_slot)]
    IN  4 * SumOver(1..Len(s), over)

calculate_capacity_penalty(c, s) ==
    LET over == [k \in 1..Len(s) |->
            LET student_count == Catalogs[c].studentCount[s[k].course_class]
                room_capacity == Catalogs[c].capacity[s[k].room.code]
            IN  IF student_count > room_capacity
                THEN (student_count - room_capacity) * duration(s[k].time_slot)
                ELSE 0]
    IN  4 * SumOver(1..Len(s), over)

\* ObjectiveFunction.calculate with toggles of = [student_conflict, room_conflict, capacity]
calculate(c, of, s) ==
    (IF of.student_conflict THEN calculate_time_conflict_penalty(c, s) ELSE 0)
    + (IF of.room_conflict THEN calculate_room_conflict_penalty(c, s) ELSE 0)
    + (IF of.capacity THEN calculate_capacity_penalty(c, s) ELSE 0)

\* ObjectiveFunction.__init__: every combination of the three toggles
ObjectiveFunctions ==
    [student_conflict : BOOLEAN, room_conflict : BOOLEAN, capacity : BOOLEAN]

\* ObjectiveFunction() with its defaults: all three terms on
DefaultObjective ==
    [student_conflict |-> TRUE, room_conflict |-> TRUE, capacity |-> TRUE]

\* the classes that meet (credits > 0)
MeetingClasses(c) ==
    {code \in Range(Catalogs[c].classes) : Catalogs[c].credits[code] > 0}

\* total_penalty before any evaluation
Idle == <<>>

\* no search has been set up
\* the locals of SimulatedAnnealing before it is entered
AnnealIdle ==
    /\ current_penalty = 0
    /\ neighbor_penalty = 0
    /\ temperature = Idle
    /\ accept_prob = Idle

\* the locals of HillClimbing before it is entered
HCIdle ==
    /\ variant = "none"
    /\ max_iterations = 0
    /\ current_state = <<>>
    /\ current_value = 0
    /\ best_state = <<>>
    /\ best_value = 0
    /\ history = <<>>
    /\ iteration = 0
    /\ best_is_current = FALSE
    /\ results = Idle

\* the locals of _sideways_move_hc and _random_restart_hc before they are entered
RestartIdle ==
    /\ max_sideways_moves = 0
    /\ sideways_moves = 0
    /\ stagnation_count = 0
    /\ max_restarts = 0
    /\ restart_variant = "none"
    /\ restart = 0
    /\ best_state_overall = <<>>
    /\ best_value_overall = 0
    /\ best_history_so_far = <<>>
    /\ iterations_per_restart = <<>>

\* no SimulatedAnnealing object has been built and run has not been called
RunIdle ==
    /\ sa = Idle
    /\ verbose = FALSE
    /\ sa_best_penalty = 0
    /\ last_stuck_check = 0

\* the program runs without its window
GuiIdle == gui = Idle

\* no neighbour generator has been called on its own
NeighborIdle == random_neighbor = Idle /\ all_neighbors = Idle

\* the genetic algorithm's objects and caches are not followed
ObjectIdle == heap = Idle /\ memo = Idle /\ runs = Idle

\* the locals of GeneticAlgorithm.optimize before it is entered
GAIdle ==
    /\ population_size = 0
    /\ generations = 0
    /\ population = <<>>
    /\ fitnesses = <<>>
    /\ generation = 0
    /\ best_penalty_history = <<>>
    /\ new_population = <<>>
    /\ new_fitnesses = <<>>

\* the arguments and results of crossover before it is called
CrossIdle ==
    /\ parent1 = <<>>
    /\ parent2 = <<>>
    /\ child1 = <<>>
    /\ child2 = <<>>

SearchIdle == HCIdle /\ AnnealIdle /\ GAIdle /\ CrossIdle /\ RestartIdle /\ RunIdle /\ GuiIdle /\ NeighborIdle
                /\ ObjectIdle

----------------------------------------------------------------------------
(* State.random_fill, one loop iteration per step *)

\* the values random.randint(0, 4) is taken to return
DrawDays == 0..Min(MaxDrawDay, LastWeekday)

\* the values random.randint(7, 17) is taken to return
DrawStarts == Max(FirstHour, LastStartHour - DrawSpan + 1)..LastStartHour

ClassAt(c, i) == Catalogs[c].classes[i]

\* hours_to_allocate = cls.credits on entering the class's while loop
CreditsAt(c, i) ==
    IF i <= Len(Catalogs[c].classes) THEN Catalogs[c].credits[ClassAt(c, i)] ELSE 0

\* (mutant) the duration is drawn without the 18 - start_hour limit
FillDurationsUnclipped(hours, start_hour) == 1..Min(MaxDuration, hours)

\* random.randint(1, min(3, hours_to_allocate, 18 - start_hour))
FillDurations(hours, start_hour) ==
    1..Min(MaxDuration, Min(hours, LastHour - start_hour))

\* the meetings one iteration of the allocation loop can append for a class
FillMeetings(c, code, hours) ==
    { Allocation(code, TimeSlot(day, start_hour, start_hour + d), Room(r, 0)) :
        <<day, start_hour, d, r>> \in
            { q \in DrawDays \X DrawStarts \X (1..MaxDuration) \X Range(Catalogs[c].rooms) :
                q[3] \in FillDurations(hours, q[2]) } }

\* self.meetings = [] and the first class's credits
StartFill(c) ==
    /\ state' = <<>>
    /\ ci' = 1
    /\ hours_to_allocate' = CreditsAt(c, 1)
    /\ pc' = "random_fill"

\* the body of `while hours_to_allocate > 0`
FillStep ==
    /\ pc = "random_fill"
    /\ ci <= Len(Catalogs[cat].classes)
    /\ hours_to_allocate > 0
    /\ \E meeting \in FillMeetings(cat, ClassAt(cat, ci), hours_to_allocate) :
          /\ state' = Append(state, meeting)
          /\ hours_to_allocate' = hours_to_allocate - duration(meeting.time_slot)
    /\ UNCHANGED <<cat, pc, ci, total_penalty, searchVars>>

\* the while loop ends: on to the next class of `for cls in classes.values()`
FillNextClass ==
    /\ pc = "random_fill"
    /\ ci <= Len(Catalogs[cat].classes)
    /\ hours_to_allocate <= 0
    /\ ci' = ci + 1
    /\ hours_to_allocate' = CreditsAt(cat, ci + 1)
    /\ UNCHANGED <<cat, pc, state, total_penalty, searchVars>>

\* the for loop is exhausted: random_fill returns
FillReturn ==
    /\ pc = "random_fill"
    /\ ci > Len(Catalogs[cat].classes)
    /\ pc' = "filled"
    /\ UNCHANGED <<cat, fillVars, total_penalty, searchVars>>

FillInit ==
    /\ cat \in FillCatalogs
    /\ pc = "random_fill"
    /\ state = <<>>
    /\ ci = 1
    /\ hours_to_allocate = CreditsAt(cat, 1)
    /\ total_penalty = Idle
    /\ SearchIdle

FillNext == FillStep \/ FillNextClass \/ FillReturn

SpecFill == FillInit /\ [][FillNext]_vars /\ WF_vars(FillNext)

\* total duration of the meetings of class `code` in schedule s
ClassHours(s, code) ==
    LET d == [k \in 1..Len(s) |->
                 IF s[k].course_class = code THEN duration(s[k].time_slot) ELSE 0]
    IN  SumOver(1..Len(s), d)

\* every class's meetings sum to its credits
CreditsMet(c, s) ==
    \A code \in Range(Catalogs[c].classes) : ClassHours(s, code) = Catalogs[c].credits[code]

\* every time slot of s lies in the timetable
SlotsValid(s) ==
    \A k \in 1..Len(s) :
        /\ s[k].time_slot.start_hour \in FirstHour..LastStartHour
        /\ s[k].time_slot.end_hour \in (FirstHour + 1)..LastHour
        /\ duration(s[k].time_slot) \in 1..MaxDuration

\* C1 (safety part): while filling, no slot leaves the timetable and no class
\* is over-allocated; when random_fill has returned every class's meetings
\* sum to its credits, so a class with credits 0 has none.
FillInvariant ==
    /\ SlotsValid(state)
    /\ pc = "random_fill" => hours_to_allocate >= 0
    /\ pc = "filled" => CreditsMet(cat, state)

\* C1: random_fill keeps its slots inside [7,18] with durations 1..3, always
\* returns, and returns a schedule in which every class's meeting durations
\* sum to the class's credits.
RandomFillCorrect == [](FillInvariant) /\ <>(pc = "filled")

\* a fill has returned a schedule that splits a class over several meetings,
\* one of them three hours long, and leaves the class with credits 0 without any
FillReturned ==
    /\ pc = "filled"
    /\ Len(state) > Cardinality(MeetingClasses(cat))
    /\ \E k \in 1..Len(state) : duration(state[k].time_slot) = MaxDuration
    /\ \E code \in Range(Catalogs[cat].classes) :
          Catalogs[cat].credits[code] = 0 /\ ClassHours(state, code) = 0

----------------------------------------------------------------------------
(* The penalty evaluator on its own: a schedule is built meeting by        *)
(* meeting with State.add_meeting, evaluated under every toggle setting,   *)
(* and then its meeting list is reordered.                                 *)

\* the time slots offered to add_meeting
ObjSlots ==
    { TimeSlot(0, LastStartHour - 1, LastStartHour),
      TimeSlot(0, LastStartHour - 1, LastHour),
      TimeSlot(0, LastStartHour, LastHour),
      TimeSlot(1, LastStartHour, LastHour) }

ObjInit ==
    /\ cat \in ObjCatalogs
    /\ pc = "obj_build"
    /\ state = <<>>
    /\ ci = 0
    /\ hours_to_allocate = 0
    /\ total_penalty = Idle
    /\ SearchIdle

\* State.add_meeting
add_meeting(s, meeting) == Append(s, meeting)

AddMeeting ==
    /\ pc = "obj_build"
    /\ Len(state) < MaxMeetings
    /\ \E code \in MeetingClasses(cat), ts \in ObjSlots,
          r \in Range(Catalogs[cat].rooms) :
          state' = add_meeting(state, Allocation(code, ts, Room(r, 0)))
    /\ UNCHANGED <<cat, pc, ci, hours_to_allocate, total_penalty, searchVars>>

Evaluate ==
    /\ pc = "obj_build"
    /\ total_penalty' = [of \in ObjectiveFunctions |-> calculate(cat, of, state)]
    /\ pc' = "obj_done"
    /\ UNCHANGED <<cat, fillVars, searchVars>>

Permuted(s, p) == [k \in 1..Len(s) |-> s[p[k]]]

Bijections(n) == {p \in [1..n -> 1..n] : \A i, j \in 1..n : p[i] = p[j] => i = j}

\* the caller reorders the meeting list of an evaluated schedule
Reorder ==
    /\ pc = "obj_done"
    /\ \E p \in Bijections(Len(state)) :
          /\ Permuted(state, p) # state
          /\ state' = Permuted(state, p)
    /\ pc' = "obj_reordered"
    /\ UNCHANGED <<cat, ci, hours_to_allocate, total_penalty, searchVars>>

ObjNext == AddMeeting \/ Evaluate \/ Reorder

SpecObj == ObjInit /\ [][ObjNext]_vars

\* C3: calculate returns a value >= 0 for every schedule under every
\* combination of the three toggles, and exactly 0 for the empty schedule.
PenaltyNonNegative ==
    pc = "obj_done" =>
        \A of \in ObjectiveFunctions :
            /\ total_penalty[of] >= 0
            /\ (state = <<>> => total_penalty[of] = 0)

\* a non-empty schedule has been evaluated and scored above zero
PenaltyEvaluated ==
    /\ pc = "obj_done"
    /\ state # <<>>
    /\ total_penalty[DefaultObjective] > 0

\* C4: reordering the meeting list leaves each of the three terms, and
\* their sum, as they were evaluated before the reordering.
PenaltyOrderInvariant ==
    pc = "obj_reordered" =>
        \A of \in ObjectiveFunctions : calculate(cat, of, state) = total_penalty[of]

\* a schedule of three meetings with conflicts has been reordered
PenaltyReordered ==
    /\ pc = "obj_reordered"
    /\ Len(state) = MaxMeetings
    /\ total_penalty[[student_conflict |-> TRUE, room_conflict |-> FALSE,
                      capacity |-> FALSE]] > 0
    /\ total_penalty[[student_conflict |-> FALSE, room_conflict |-> TRUE,
                      capacity |-> FALSE]] > 0

----------------------------------------------------------------------------
(* Object identity of rooms.  ident[k] names the Room object meeting k     *)
(* refers to: <<"orig", code, obj>> is the object the source schedule      *)
(* referred to, <<"copy", code, obj>> is the copy copy.deepcopy made of    *)
(* it.  The catalog's object is <<"orig", code, 0>>; every other object    *)
(* is numbered from 1 in order of first appearance in the meeting list.    *)

IsCatalogObject(key) == key[1] = "orig" /\ key[3] = 0

CanonObj(ident, k) ==
    IF IsCatalogObject(ident[k]) THEN 0
    ELSE LET first == CHOOSE j \in 1..k :
                          /\ ident[j] = ident[k]
                          /\ \A l \in 1..(j - 1) : ident[l] # ident[k]
             earlier == {ident[l] : l \in {x \in 1..(first - 1) : ~IsCatalogObject(ident[x])}}
         IN  1 + Cardinality(earlier)

\* the meetings of s with the room references named by ident
WithRooms(s, ident) ==
    [k \in 1..Len(s) |-> [s[k] EXCEPT !.room = Room(ident[k][2], CanonObj(ident, k))]] \o <<>>

\* copy.deepcopy(state): every Room a meeting refers to is copied
DeepCopy(s) ==
    WithRooms(s, [k \in 1..Len(s) |-> <<"copy", s[k].room.code, s[k].room.obj>>])

\* Room defines no __eq__: r1 == r2 is object identity
RoomEq(r1, r2) == r1.code = r2.code /\ r1.obj = r2.obj

----------------------------------------------------------------------------
(* State.get_random_neighbor *)

\* (mutant) the swap exchanges the time slots and leaves the rooms in place
SwapRandomSlotsOnly(s, idx1, idx2) ==
    LET swapped == [k \in 1..Len(s) |->
            IF k = idx1 THEN Allocation(s[k].course_class, s[idx2].time_slot, s[k].room)
            ELSE IF k = idx2 THEN Allocation(s[k].course_class, s[idx1].time_slot, s[k].room)
            ELSE s[k]]
    IN  WithRooms(swapped, [k \in 1..Len(s) |-> <<"orig", swapped[k].room.code, swapped[k].room.obj>>])

\* swap: the two meetings exchange their TimeSlot and their Room objects
SwapRandom(s, idx1, idx2) ==
    LET swapped == [k \in 1..Len(s) |->
            IF k = idx1 THEN Allocation(s[k].course_class, s[idx2].time_slot, s[idx2].room)
            ELSE IF k = idx2 THEN Allocation(s[k].course_class, s[idx1].time_slot, s[idx1].room)
            ELSE s[k]]
    IN  WithRooms(swapped, [k \in 1..Len(s) |-> <<"orig", swapped[k].room.code, swapped[k].room.obj>>])

\* (mutant) the move gives the meeting the longest duration that fits
MoveRandomFullLength(s, idx, day, start_hour, r) ==
    LET end_hour == Min(start_hour + MaxDuration, LastHour)
        moved == [s EXCEPT ![idx] = Allocation(s[idx].course_class,
                                               TimeSlot(day, start_hour, end_hour),
                                               Room(r, 0))]
    IN  WithRooms(moved, [k \in 1..Len(s) |-> <<"orig", moved[k].room.code, moved[k].room.obj>>])

\* move: end_hour = min(start_hour + duration, 18); the room comes from the catalog
MoveRandom(s, idx, day, start_hour, r) ==
    LET end_hour == Min(start_hour + duration(s[idx].time_slot), LastHour)
        moved == [s EXCEPT ![idx] = Allocation(s[idx].course_class,
                                               TimeSlot(day, start_hour, end_hour),
                                               Room(r, 0))]
    IN  WithRooms(moved, [k \in 1..Len(s) |-> <<"orig", moved[k].room.code, moved[k].room.obj>>])

\* every neighbour get_random_neighbor can return for a non-empty schedule
get_random_neighbor(c, s) ==
    LET n == Len(s)
        swaps == IF n >= 2
                 THEN {SwapRandom(s, q[1], q[2]) : q \in {x \in (1..n) \X (1..n) : x[1] # x[2]}}
                 ELSE {}
        moves == {MoveRandom(s, q[1], q[2], q[3], q[4]) :
                     q \in (1..n) \X DrawDays \X DrawStarts \X Range(Catalogs[c].rooms)}
    IN  swaps \cup moves

----------------------------------------------------------------------------
(* State.get_all_neighbors, in the order the code appends them *)

\* range(1, 11): the durations slots are pre-generated for
MaxSlotDuration == 10

\* (mutant) the last start hour that fits, 18 - duration, is left out
slots_by_duration_short(d) ==
    IF d \in 1..MaxSlotDuration
    THEN LET starts == Max(0, Min(LastHour, LastHour - d) - FirstHour)
         IN  [k \in 1..((LastWeekday + 1) * starts) |->
                 TimeSlot((k - 1) \div starts,
                          FirstHour + ((k - 1) % starts),
                          FirstHour + ((k - 1) % starts) + d)]
    ELSE <<>>

\* slots_by_duration.get(duration, [])
slots_by_duration(d) ==
    IF d \in 1..MaxSlotDuration
    THEN LET starts == Max(0, Min(LastHour, LastHour - d + 1) - FirstHour)
         IN  [k \in 1..((LastWeekday + 1) * starts) |->
                 TimeSlot((k - 1) \div starts,
                          FirstHour + ((k - 1) % starts),
                          FirstHour + ((k - 1) % starts) + d)]
    ELSE <<>>

\* neighbor = deepcopy(self); neighbor.meetings[i] = Allocation(class, new_slot, room)
MoveNeighbor(s, i, new_slot, r) ==
    LET moved == [s EXCEPT ![i] = Allocation(s[i].course_class, new_slot, Room(r, 0))]
    IN  WithRooms(moved, [k \in 1..Len(s) |->
            IF k = i THEN <<"orig", r, 0>>
            ELSE <<"copy", s[k].room.code, s[k].room.obj>>])

\* the move neighbours of meeting i
MoveNeighbors(c, s, i) ==
    LET valid_slots == slots_by_duration(duration(s[i].time_slot))
        room_list == Catalogs[c].rooms
        nr == Len(room_list)
        cand == [q \in 1..(Len(valid_slots) * nr) |->
                    <<valid_slots[((q - 1) \div nr) + 1], room_list[((q - 1) % nr) + 1]>>]
        identical(x) ==
            /\ RoomEq(Room(x[2], 0), s[i].room)
            /\ s[i].time_slot.day = x[1].day
            /\ s[i].time_slot.start_hour = x[1].start_hour
        kept == SelectSeq(cand, LAMBDA x : ~identical(x))
    IN  [q \in 1..Len(kept) |-> MoveNeighbor(s, i, kept[q][1], kept[q][2])]

\* neighbor = deepcopy(self); meetings i and j take each other's slot and room
SwapNeighbor(s, i, j) ==
    LET swapped == [k \in 1..Len(s) |->
            IF k = i THEN Allocation(s[i].course_class, s[j].time_slot, s[j].room)
            ELSE IF k = j THEN Allocation(s[j].course_class, s[i].time_slot, s[i].room)
            ELSE s[k]]
    IN  WithRooms(swapped, [k \in 1..Len(s) |->
            IF k = i THEN <<"orig", s[j].room.code, s[j].room.obj>>
            ELSE IF k = j THEN <<"orig", s[i].room.code, s[i].room.obj>>
            ELSE <<"copy", s[k].room.code, s[k].room.obj>>])

\* the swap neighbours, pairs i < j in loop order
SwapNeighbors(s) ==
    LET n == Len(s)
        pairs == [q \in 1..(n * n) |-> <<((q - 1) \div n) + 1, ((q - 1) % n) + 1>>]
        identical(x) ==
            /\ s[x[1]].time_slot.day = s[x[2]].time_slot.day
            /\ s[x[1]].time_slot.start_hour = s[x[2]].time_slot.start_hour
            /\ s[x[1]].time_slot.end_hour = s[x[2]].time_slot.end_hour
            /\ RoomEq(s[x[1]].room, s[x[2]].room)
        kept == SelectSeq(pairs, LAMBDA x : x[1] < x[2] /\ ~identical(x))
    IN  [q \in 1..Len(kept) |-> SwapNeighbor(s, kept[q][1], kept[q][2])]

RECURSIVE AllMoves(_, _, _)
AllMoves(c, s, i) ==
    IF i > Len(s) THEN <<>> ELSE MoveNeighbors(c, s, i) \o AllMoves(c, s, i + 1)

get_all_neighbors(c, s) == AllMoves(c, s, 1) \o SwapNeighbors(s)

\* the placements of a schedule, as the claims compare them: by value
Placement(s) ==
    [k \in 1..Len(s) |-> <<s[k].course_class, s[k].time_slot, s[k].room.code>>]

----------------------------------------------------------------------------
(* HillClimbing.solve, started by main on a randomly filled schedule *)

Penalty(s) == calculate(cat, DefaultObjective, s)

\* index of the first neighbour of least penalty (the strict < scan)
FirstBest(values) ==
    LET least == CHOOSE v \in Range(values) : \A w \in Range(values) : v <= w
    IN  CHOOSE k \in 1..Len(values) :
            values[k] = least /\ \A j \in 1..(k - 1) : values[j] # least

\* the penalty of every neighbour, in order
Penalties(neighbors) == [k \in 1..Len(neighbors) |-> Penalty(neighbors[k])] \o <<>>

HCVariants == {"stochastic", "steepest_ascent"}

\* (mutant) the loop runs for i = 0..max_iterations, one iteration too many
InRangeInclusive(i, n) == i <= n

\* for i in range(n): the body runs while i < n
InRange(i, n) == i < n

\* the variants solve knows
SolveVariants == {"stochastic", "steepest_ascent", "sideways_move", "random_restart"}

\* (mutant) a variant solve does not know is run as stochastic
DispatchDefault(v) == IF v \in SolveVariants THEN v ELSE "stochastic"

\* the if / elif chain of solve: its else branch raises ValueError
Dispatch(v) == IF v \in SolveVariants THEN v ELSE "raise"

\* the if / elif chain of _random_restart_hc: its else branch runs stochastic
RestartDispatch(v) ==
    IF v \in {"stochastic", "steepest_ascent", "sideways_move"} THEN v ELSE "stochastic"

\* the search loop v is the one to enter: solve has dispatched to it, or
\* _random_restart_hc has for the restart under way
Dispatched(v) ==
    IF Dispatch(variant) = "random_restart"
    THEN restart > 0 /\ RestartDispatch(restart_variant) = v
    ELSE Dispatch(variant) = v

HCInit ==
    /\ cat \in SearchCatalogs
    /\ pc = "random_fill"
    /\ state = <<>>
    /\ ci = 1
    /\ hours_to_allocate = CreditsAt(cat, 1)
    /\ total_penalty = Idle
    /\ variant \in HCVariants
    /\ max_iterations \in 0..MaxIterations
    /\ current_state = <<>>
    /\ current_value = 0
    /\ best_state = <<>>
    /\ best_value = 0
    /\ history = <<>>
    /\ iteration = 0
    /\ best_is_current = FALSE
    /\ results = Idle
    /\ AnnealIdle
    /\ GAIdle
    /\ CrossIdle
    /\ RestartIdle
    /\ RunIdle
    /\ GuiIdle
    /\ NeighborIdle
    /\ ObjectIdle

\* _stochastic_hc is entered: best_state is the initial schedule itself
StochasticEnter ==
    /\ pc = "filled"
    /\ Dispatched("stochastic")
    /\ current_state' = state
    /\ current_value' = Penalty(state)
    /\ best_state' = state
    /\ best_is_current' = TRUE
    /\ best_value' = Penalty(state)
    /\ history' = <<Penalty(state)>>
    /\ iteration' = 0
    /\ pc' = "stochastic"
    /\ UNCHANGED <<cat, sidewaysVars, restartVars, runVars, gui, neighborVars, objectVars,
                   fillVars, total_penalty, annealVars, gaVars, crossVars, variant,
                   max_iterations, results>>

\* (mutant) a neighbour of equal penalty is moved to as well
BetterOrEqual(neighbor_value, value) == neighbor_value <= value

\* (mutant) every neighbour is moved to and retained, whatever its penalty
BetterOrWorse(neighbor_value, value) == TRUE

\* if neighbor_value < current_value: the move is made;
\* if current_value < best_value: the best is replaced
Better(neighbor_value, value) == neighbor_value < value

\* one iteration of _stochastic_hc
StochasticStep ==
    /\ pc = "stochastic"
    /\ InRange(iteration, max_iterations)
    /\ IF current_state = <<>>
       THEN /\ history' = Append(history, best_value)
            /\ iteration' = iteration + 1
            /\ UNCHANGED <<pc, current_state, current_value, best_state, best_value,
                           best_is_current>>
       ELSE \E neighbor \in get_random_neighbor(cat, current_state) :
            \E neighbor_value \in {Penalty(neighbor)} :
              LET accepted == Better(neighbor_value, current_value)
                  improved == accepted /\ Better(neighbor_value, best_value)
                  perfect == improved /\ neighbor_value = 0
              IN  /\ current_state' = IF accepted THEN neighbor ELSE current_state
                  /\ current_value' = IF accepted THEN neighbor_value ELSE current_value
                  /\ best_state' = IF improved THEN DeepCopy(neighbor) ELSE best_state
                  /\ best_is_current' = IF accepted THEN FALSE ELSE best_is_current
                  /\ best_value' = IF improved THEN neighbor_value ELSE best_value
                  /\ IF perfect
                     THEN pc' = "hc_return" /\ UNCHANGED <<history, iteration>>
                     ELSE /\ history' = Append(history, best_value')
                          /\ iteration' = iteration + 1
                          /\ pc' = pc
    /\ UNCHANGED <<cat, sidewaysVars, restartVars, runVars, gui, neighborVars, objectVars,
                   fillVars, total_penalty, annealVars, gaVars, crossVars, variant,
                   max_iterations, results>>

\* _steepest_ascent_hc is entered: best_state is a deep copy
SteepestEnter ==
    /\ pc = "filled"
    /\ Dispatched("steepest_ascent")
    /\ current_state' = state
    /\ current_value' = Penalty(state)
    /\ best_state' = DeepCopy(state)
    /\ best_is_current' = FALSE
    /\ best_value' = Penalty(state)
    /\ history' = <<Penalty(state)>>
    /\ iteration' = 0
    /\ pc' = "steepest_ascent"
    /\ UNCHANGED <<cat, sidewaysVars, restartVars, runVars, gui, neighborVars, objectVars,
                   fillVars, total_penalty, annealVars, gaVars, crossVars, variant,
                   max_iterations, results>>

\* one iteration of _steepest_ascent_hc
SteepestStep ==
    /\ pc = "steepest_ascent"
    /\ InRange(iteration, max_iterations)
    /\ \E neighbors \in {get_all_neighbors(cat, current_state)} :
       \E values \in {Penalties(neighbors)} :
       \E b \in {IF neighbors = <<>> THEN 0 ELSE FirstBest(values)} :
           IF neighbors # <<>> /\ values[b] < current_value
           THEN LET improved == values[b] < best_value
                    perfect == improved /\ values[b] = 0
                IN  /\ current_state' = neighbors[b]
                    /\ current_value' = values[b]
                    /\ best_state' = IF improved THEN DeepCopy(neighbors[b]) ELSE best_state
                    /\ best_is_current' = FALSE
                    /\ best_value' = IF improved THEN values[b] ELSE best_value
                    /\ IF perfect
                       THEN pc' = "hc_return" /\ UNCHANGED <<history, iteration>>
                       ELSE /\ history' = Append(history, best_value')
                            /\ iteration' = iteration + 1
                            /\ pc' = pc
           ELSE /\ pc' = "hc_return"
                /\ UNCHANGED <<current_state, current_value, best_state, best_value,
                               best_is_current, history, iteration>>
    /\ UNCHANGED <<cat, sidewaysVars, restartVars, runVars, gui, neighborVars, objectVars,
                   fillVars, total_penalty, annealVars, gaVars, crossVars, variant,
                   max_iterations, results>>

\* for i in range(max_iterations) is exhausted
LoopExhausted ==
    /\ pc \in HCVariants
    /\ ~InRange(iteration, max_iterations)
    /\ pc' = "hc_return"
    /\ UNCHANGED <<cat, fillVars, total_penalty, searchVars>>

\* solve fills in the result record and returns
HCReturn ==
    /\ pc = "hc_return"
    /\ results' = [best_penalty |-> Penalty(best_state),
                   history |-> history,
                   iterations |-> Len(history),
                   initial_penalty |-> Penalty(state)]
    /\ pc' = "hc_done"
    /\ UNCHANGED <<cat, sidewaysVars, restartVars, runVars, gui, neighborVars, objectVars,
                   fillVars, total_penalty, annealVars, gaVars, crossVars, variant,
                   max_iterations, current_state,
                   current_value, best_state, best_value, history, iteration,
                   best_is_current>>

HCNext ==
    \/ FillStep \/ FillNextClass \/ FillReturn
    \/ StochasticEnter \/ StochasticStep
    \/ SteepestEnter \/ SteepestStep
    \/ LoopExhausted \/ HCReturn

SpecHC == HCInit /\ [][HCNext]_vars

\* the search has set up current_state and best_state
Searching == pc \in HCVariants \cup {"hc_return", "hc_done"}

\* C2 (as claimed): every schedule a search stands on or retains allocates
\* to every class meetings whose durations sum to the class's credits.
SearchKeepsCredits ==
    Searching => CreditsMet(cat, current_state) /\ CreditsMet(cat, best_state)

\* C5 (as claimed): no schedule returned by get_all_neighbors has the same
\* placements (class, time slot, room code) as the schedule it was asked of.
NoIdentityNeighbor ==
    (pc = "steepest_ascent" /\ InRange(iteration, max_iterations)) =>
        \A nb \in Range(get_all_neighbors(cat, current_state)) :
            Placement(nb) # Placement(current_state)

\* C8: in steepest-ascent the best-penalty history starts with the initial
\* penalty, never increases from one entry to the next, and holds one entry
\* per completed iteration, of which there are at most max_iterations.
SteepestHistoryMonotone ==
    (variant = "steepest_ascent" /\ Searching) =>
        /\ history[1] = Penalty(state)
        /\ \A k \in 1..(Len(history) - 1) : history[k + 1] <= history[k]
        /\ \A k \in 1..Len(history) : history[k] <= Penalty(state)
        /\ Len(history) = iteration + 1
        /\ iteration <= max_iterations
        /\ (pc = "hc_done" => results.history = history)

\* a steepest-ascent run has returned after improving twice
SteepestImprovedTwice ==
    /\ variant = "steepest_ascent"
    /\ pc = "hc_done"
    /\ Len(results.history) = MaxIterations + 1
    /\ results.history[MaxIterations + 1] < results.history[1]

----------------------------------------------------------------------------
(* SimulatedAnnealing.acceptance_probability.  Penalties are counted in    *)
(* quarter units.  A temperature is a decimal m * 10^e.  A probability is  *)
(* counted in 1/One, and every float strictly between 0.0 and 1.0 stays    *)
(* strictly between 0 and One.                                             *)

\* the float 1.0
One == 10000

Decimal(m, e) == [m |-> m, e |-> e]

\* the guard's literal 1e-10
Threshold == Decimal(1, -10)

\* the temperatures acceptance_probability is called with: negative, zero,
\* below, at and above 1e-10, and temperatures of a cooling run
Temperatures ==
    { Decimal(-1, 0), Decimal(0, 0), Decimal(9, -11), Decimal(1, -10),
      Decimal(3, -4), Decimal(1, -3), Decimal(1, -2), Decimal(1, 0), Decimal(5, 2) }

\* v * 10^k, left as it is once its magnitude has passed 10^8
RECURSIVE ScaleUp(_, _)
ScaleUp(v, k) ==
    IF k = 0 \/ v >= 100000000 \/ v <= -100000000 THEN v ELSE ScaleUp(v * 10, k - 1)

\* a < b for decimals of mantissa below 10^8
DecLess(a, b) ==
    LET e == Min(a.e, b.e)
    IN  ScaleUp(a.m, a.e - e) < ScaleUp(b.m, b.e - e)

\* a function call returns a value or raises
Return(v) == [raises |-> "none", value |-> v]
Raise(x) == [raises |-> x, value |-> 0]

\* the magnitude of delta_E / temperature in thousandths, rounded down, for
\* delta_E of magnitude q quarter units; saturated far above any argument
\* math.exp distinguishes
Thousandths(q, T) ==
    LET m == IF T.m < 0 THEN 0 - T.m ELSE T.m
    IN  IF T.e >= 0 THEN (250 * q) \div ScaleUp(m, T.e)
        ELSE ScaleUp(250 * q, 0 - T.e) \div m

\* One * e^(-n) for n = 0..9, rounded; below 1/One from n = 10 on
ExpTable == <<10000, 3679, 1353, 498, 183, 67, 25, 9, 3, 1>>

\* term - term*f/k + term*f^2/(k(k+1)) - ..., f in thousandths
RECURSIVE Series(_, _, _)
Series(term, f, k) ==
    IF term = 0 THEN 0 ELSE term - Series((term * f) \div (1000 * k), f, k + 1)

\* One * e^(-x) for x thousandths
ExpNeg(x) ==
    LET n == x \div 1000
        whole == IF n < Len(ExpTable) THEN ExpTable[n + 1] ELSE 0
    IN  (whole * (Series(1000000, x % 1000, 1) \div 100)) \div One

\* math.exp(delta_E / temperature) for delta_E <= 0 of magnitude q quarter
\* units: the division raises on a zero divisor; math.exp returns exactly 1.0
\* at 0, exactly 0.0 below about -745.13, raises OverflowError above about
\* 709.78, and a float above 1.0 for any other positive argument
exp_quotient(q, T) ==
    IF T.m = 0 THEN Raise("ZeroDivisionError")
    ELSE IF q = 0 THEN Return(One)
    ELSE LET x == Thousandths(q, T)
         IN  IF T.m > 0
             THEN IF x > 745133 THEN Return(0)
                  ELSE Return(Max(1, Min(One - 1, ExpNeg(x))))
             ELSE IF x > 709782 THEN Raise("OverflowError")
                  ELSE Return(One + 1)

\* except OverflowError: probability = 1.0; return min(probability, 1.0)
Clamped(probability) ==
    IF probability.raises = "OverflowError" THEN Return(One)
    ELSE IF probability.raises # "none" THEN probability
    ELSE Return(Min(probability.value, One))

\* (mutant) the temperature guard is tested before the improvement
acceptance_probability_guard_first(current, neighbor, T) ==
    IF DecLess(T, Threshold) THEN Return(0)
    ELSE IF neighbor < current THEN Return(One)
    ELSE Clamped(exp_quotient(neighbor - current, T))

\* (mutant) the temperature guard is missing
acceptance_probability_unguarded(current, neighbor, T) ==
    IF neighbor < current THEN Return(One)
    ELSE Clamped(exp_quotient(neighbor - current, T))

acceptance_probability(current, neighbor, T) ==
    IF neighbor < current THEN Return(One)
    ELSE IF DecLess(T, Threshold) THEN Return(0)
    ELSE Clamped(exp_quotient(neighbor - current, T))

AcceptInit ==
    /\ cat = 1
    /\ pc = "sa_call"
    /\ state = <<>>
    /\ ci = 1
    /\ hours_to_allocate = 0
    /\ total_penalty = Idle
    /\ HCIdle
    /\ current_penalty \in 0..MaxPenalty
    /\ neighbor_penalty = 0
    /\ temperature \in Temperatures
    /\ accept_prob = Idle
    /\ GAIdle
    /\ CrossIdle
    /\ RestartIdle
    /\ RunIdle
    /\ GuiIdle
    /\ NeighborIdle
    /\ ObjectIdle

\* accept_prob = self.acceptance_probability(current_penalty, neighbor_penalty, temperature)
AcceptanceProbability ==
    /\ pc = "sa_call"
    /\ \E p \in 0..MaxPenalty :
        /\ neighbor_penalty' = p
        /\ accept_prob' = acceptance_probability(current_penalty, p, temperature)
    /\ pc' = "sa_returned"
    /\ UNCHANGED <<cat, sidewaysVars, restartVars, runVars, gui, neighborVars, objectVars,
                   fillVars, total_penalty, hcVars, results, gaVars, crossVars,
                   current_penalty, temperature>>

AcceptNext == AcceptanceProbability

SpecAccept == AcceptInit /\ [][AcceptNext]_vars

\* C6: acceptance_probability returns exactly 1.0 whenever the neighbour's
\* penalty is strictly lower than the current one, at every temperature.
ImprovementAlwaysAccepted ==
    (pc = "sa_returned" /\ neighbor_penalty < current_penalty) =>
        accept_prob = Return(One)

\* an improving neighbour was accepted at a temperature below the guard's 1e-10
ImprovementAcceptedCold ==
    /\ pc = "sa_returned"
    /\ neighbor_penalty < current_penalty
    /\ DecLess(temperature, Threshold)
    /\ accept_prob = Return(One)

\* C7 (as claimed): acceptance_probability returns 0.0 whenever the
\* temperature is below 1e-10, never raises, and returns a value in [0, 1].
ColdAlwaysRejects ==
    pc = "sa_returned" =>
        /\ accept_prob.raises = "none"
        /\ accept_prob.value \in 0..One
        /\ (DecLess(temperature, Threshold) => accept_prob.value = 0)

\* C7 (amended): acceptance_probability returns 0.0 whenever the temperature
\* is below 1e-10 and the neighbour is not strictly better, never raises, and
\* always returns a value in [0, 1].
ColdRejectsUnlessImproved ==
    pc = "sa_returned" =>
        /\ accept_prob.raises = "none"
        /\ accept_prob.value \in 0..One
        /\ (DecLess(temperature, Threshold) /\ neighbor_penalty >= current_penalty
                => accept_prob.value = 0)

\* a worse neighbour was rejected outright at a negative temperature
ColdRejected ==
    /\ pc = "sa_returned"
    /\ neighbor_penalty > current_penalty
    /\ temperature.m < 0
    /\ accept_prob = Return(0)

----------------------------------------------------------------------------
(* GeneticAlgorithm.  The genetic operators read a Room through its code   *)
(* and capacity only and build new Allocation objects for every child, so  *)
(* individuals are kept by value: copy.deepcopy of the elite keeps every   *)
(* meeting's class, time slot and room code.                               *)

\* fitness = 1.0 / (1.0 + penalty), as the fraction 4 / (4 + quarter units)
Fitness(penalty) == [num |-> 4, den |-> 4 + penalty]

\* f > g for two fitnesses
FitnessGreater(f, g) == f.num * g.den > g.num * f.den

\* the caches are keyed by the sorted placements, which decide the penalty
evaluate_fitness(individual) == Fitness(Penalty(individual))

get_penalty(individual) == Penalty(individual)

\* (mutant) the first individual is taken for the best
first_individual_index(fs) == 1

\* max(range(len(fitnesses)), key=...): the first index of greatest fitness
get_best_individual_index(fs) ==
    CHOOSE i \in 1..Len(fs) :
        /\ \A j \in 1..Len(fs) : ~FitnessGreater(fs[j], fs[i])
        /\ \A j \in 1..(i - 1) : FitnessGreater(fs[i], fs[j])

\* random.sample(range(n), 2), then idx1 if fitnesses[idx1] > fitnesses[idx2] else idx2
tournament_selection(fs) ==
    { IF FitnessGreater(fs[q[1]], fs[q[2]]) THEN q[1] ELSE q[2] :
        q \in {x \in (1..Len(fs)) \X (1..Len(fs)) : x[1] # x[2]} }

\* the class codes with a meeting in s
Codes(s) == {s[k].course_class : k \in 1..Len(s)}

\* courses_from_parent1: the first len // 2 codes of list(all_courses), whose
\* order is the iteration order of a set of strings
Splits(p1, p2) ==
    LET all_courses == Codes(p1) \cup Codes(p2)
    IN  {S \in SUBSET all_courses : Cardinality(S) = Cardinality(all_courses) \div 2}

\* (mutant) child2 takes parent1's meetings of the same half as child1
crossover_same_half(p1, p2, courses_from_parent1) ==
    LET In(m) == m.course_class \in courses_from_parent1
        Out(m) == m.course_class \notin courses_from_parent1
    IN  << SelectSeq(p1, In) \o SelectSeq(p2, Out),
           SelectSeq(p2, In) \o SelectSeq(p1, In) >>

\* the two children, for one choice of courses_from_parent1
crossover(p1, p2, courses_from_parent1) ==
    LET In(m) == m.course_class \in courses_from_parent1
        Out(m) == m.course_class \notin courses_from_parent1
    IN  << SelectSeq(p1, In) \o SelectSeq(p2, Out),
           SelectSeq(p2, In) \o SelectSeq(p1, Out) >>

\* (mutant) mutation_type 0 with the new start drawn up to 17 and the slot cut
\* at 18
MutateTimeCut(s) ==
    { [s EXCEPT ![q[1]].time_slot =
            TimeSlot(q[2], q[3], Min(LastHour, q[3] + duration(s[q[1]].time_slot)))] :
        q \in (1..Len(s)) \X DrawDays \X DrawStarts }

\* mutation_type 0: a meeting gets a new day and start, its duration kept
MutateTime(s) ==
    { [s EXCEPT ![q[1]].time_slot =
            TimeSlot(q[2], q[3], q[3] + duration(s[q[1]].time_slot))] :
        q \in { x \in (1..Len(s)) \X DrawDays \X DrawStarts :
                  x[3] <= LastHour - duration(s[x[1]].time_slot) } }

\* mutation_type 1: a meeting gets a room of the catalog
MutateRoom(c, s) ==
    { [s EXCEPT ![q[1]].room = Room(q[2], 0)] :
        q \in (1..Len(s)) \X Range(Catalogs[c].rooms) }

\* the meetings the reschedule loop can append for a class with hours left
RECURSIVE Reschedules(_, _, _)
Reschedules(c, code, hours) ==
    IF hours <= 0 THEN {<<>>}
    ELSE UNION { { <<meeting>> \o rest :
                     rest \in Reschedules(c, code, hours - duration(meeting.time_slot)) } :
                 meeting \in FillMeetings(c, code, hours) }

\* mutation_type 2: the meetings of one class are dropped and allocated anew
MutateReschedule(c, s) ==
    UNION { LET Kept(m) == m.course_class # code
            IN  { SelectSeq(s, Kept) \o new :
                    new \in Reschedules(c, code, Catalogs[c].credits[code]) } :
            code \in Codes(s) }

\* every individual mutate can leave behind
mutate(c, individual) ==
    IF individual = <<>> THEN {individual}
    ELSE MutateTime(individual) \cup MutateRoom(c, individual)
            \cup MutateReschedule(c, individual)

\* if random.random() < 0.2: self.mutate(child)
MaybeMutated(c, child) == {child} \cup mutate(c, child)

\* (mutant) the population is cut to its last population_size individuals
TrimTail(individuals, n) ==
    SubSeq(individuals, Len(individuals) - Min(n, Len(individuals)) + 1, Len(individuals))

\* new_population[: self.population_size]
Trim(individuals, n) == SubSeq(individuals, 1, Min(n, Len(individuals)))

GAInit ==
    /\ cat \in GACatalogs
    /\ pc = "random_fill"
    /\ state = <<>>
    /\ ci = 1
    /\ hours_to_allocate = CreditsAt(cat, 1)
    /\ total_penalty = Idle
    /\ HCIdle
    /\ results = Idle
    /\ AnnealIdle
    /\ population_size \in 1..MaxPopulation
    /\ generations \in 1..MaxGenerations
    /\ population = <<>>
    /\ fitnesses = <<>>
    /\ generation = 0
    /\ best_penalty_history = <<>>
    /\ new_population = <<>>
    /\ new_fitnesses = <<>>
    /\ CrossIdle
    /\ RestartIdle
    /\ RunIdle
    /\ GuiIdle
    /\ NeighborIdle
    /\ ObjectIdle

\* initialize_population: population.append(individual); once the population
\* is complete optimize evaluates every individual
AddIndividual ==
    /\ pc = "filled"
    /\ population' = Append(population, state)
    /\ IF Len(population') < population_size
       THEN /\ StartFill(cat)
            /\ UNCHANGED fitnesses
       ELSE /\ fitnesses' = [k \in 1..Len(population') |-> evaluate_fitness(population'[k])]
            /\ pc' = "ga_generation"
            /\ UNCHANGED fillVars
    /\ UNCHANGED <<cat, sidewaysVars, restartVars, runVars, gui, neighborVars, objectVars,
                   total_penalty, hcVars, results, annealVars, population_size,
                   generations, generation, best_penalty_history, new_population,
                   new_fitnesses, crossVars>>

\* the head of a generation: statistics, early stop, elitism
Generation ==
    /\ pc = "ga_generation"
    /\ InRange(generation, generations)
    /\ LET best_fitness_idx == get_best_individual_index(fitnesses)
           best_penalty == get_penalty(population[best_fitness_idx])
       IN  /\ best_penalty_history' = Append(best_penalty_history, best_penalty)
           /\ IF best_penalty = 0
              THEN /\ pc' = "ga_finish"
                   /\ UNCHANGED <<new_population, new_fitnesses>>
              ELSE /\ new_population' = <<population[best_fitness_idx]>>
                   /\ new_fitnesses' = <<fitnesses[best_fitness_idx]>>
                   /\ pc' = "ga_offspring"
    /\ UNCHANGED <<cat, sidewaysVars, restartVars, runVars, gui, neighborVars, objectVars,
                   fillVars, total_penalty, hcVars, results, annealVars,
                   population_size, generations, population, fitnesses, generation,
                   crossVars>>

\* one round of `while len(new_population) < self.population_size`
Offspring ==
    /\ pc = "ga_offspring"
    /\ Len(new_population) < population_size
    /\ \E parent1_idx \in tournament_selection(fitnesses) :
       \E parent2_idx \in tournament_selection(fitnesses) :
       \E courses_from_parent1 \in Splits(population[parent1_idx], population[parent2_idx]) :
       \E children \in {crossover(population[parent1_idx], population[parent2_idx],
                                  courses_from_parent1)} :
       \E mutated1 \in MaybeMutated(cat, children[1]) :
       \E mutated2 \in MaybeMutated(cat, children[2]) :
          /\ new_population' = new_population \o <<mutated1, mutated2>>
          /\ new_fitnesses' = new_fitnesses \o
                <<evaluate_fitness(mutated1), evaluate_fitness(mutated2)>>
    /\ UNCHANGED <<cat, sidewaysVars, restartVars, runVars, gui, neighborVars, objectVars,
                   pc, fillVars, total_penalty, hcVars, results, annealVars,
                   population_size, generations, population, fitnesses, generation,
                   best_penalty_history, crossVars>>

\* the while loop ends: trim to the exact population size, next generation
NextGeneration ==
    /\ pc = "ga_offspring"
    /\ Len(new_population) >= population_size
    /\ population' = Trim(new_population, population_size)
    /\ fitnesses' = Trim(new_fitnesses, population_size)
    /\ generation' = generation + 1
    /\ pc' = "ga_generation"
    /\ UNCHANGED <<cat, sidewaysVars, restartVars, runVars, gui, neighborVars, objectVars,
                   fillVars, total_penalty, hcVars, results, annealVars,
                   population_size, generations, best_penalty_history, new_population,
                   new_fitnesses, crossVars>>

\* for generation in range(self.generations) is exhausted
GenerationsExhausted ==
    /\ pc = "ga_generation"
    /\ ~InRange(generation, generations)
    /\ pc' = "ga_finish"
    /\ UNCHANGED <<cat, fillVars, total_penalty, searchVars>>

\* optimize returns the fittest individual of the last population
GAReturn ==
    /\ pc = "ga_finish"
    /\ LET best_index == get_best_individual_index(fitnesses)
       IN  results' = [best_individual |-> population[best_index],
                       final_penalty |-> get_penalty(population[best_index]),
                       best_penalty_history |-> best_penalty_history]
    /\ pc' = "ga_done"
    /\ UNCHANGED <<cat, sidewaysVars, restartVars, runVars, gui, neighborVars, objectVars,
                   fillVars, total_penalty, hcVars, annealVars, gaVars, crossVars>>

GANext ==
    \/ FillStep \/ FillNextClass \/ FillReturn
    \/ AddIndividual \/ Generation \/ Offspring \/ NextGeneration
    \/ GenerationsExhausted \/ GAReturn

SpecGA == GAInit /\ [][GANext]_vars

\* C9: the best penalty recorded for a generation is never above the one
\* recorded for the generation before it, whatever the population size.
BestPenaltyNeverIncreases ==
    \A k \in 1..(Len(best_penalty_history) - 1) :
        best_penalty_history[k + 1] <= best_penalty_history[k]

\* a run with offspring has returned after the best penalty went down
GAImproved ==
    /\ pc = "ga_done"
    /\ population_size >= 2
    /\ Len(results.best_penalty_history) >= 2
    /\ results.best_penalty_history[2] < results.best_penalty_history[1]

----------------------------------------------------------------------------
(* GeneticAlgorithm.crossover, called on two individuals of a population   *)
(* that initialize_population has filled                                    *)

CrossInit ==
    /\ cat \in CrossCatalogs
    /\ pc = "random_fill"
    /\ state = <<>>
    /\ ci = 1
    /\ hours_to_allocate = CreditsAt(cat, 1)
    /\ total_penalty = Idle
    /\ HCIdle
    /\ results = Idle
    /\ AnnealIdle
    /\ population_size = 2
    /\ generations = 1
    /\ population = <<>>
    /\ fitnesses = <<>>
    /\ generation = 0
    /\ best_penalty_history = <<>>
    /\ new_population = <<>>
    /\ new_fitnesses = <<>>
    /\ CrossIdle
    /\ RestartIdle
    /\ RunIdle
    /\ GuiIdle
    /\ NeighborIdle
    /\ ObjectIdle

\* child1, child2 = self.crossover(parent1, parent2)
Crossover ==
    /\ pc = "ga_generation"
    /\ \E i \in 1..Len(population) :
       \E j \in 1..Len(population) :
       \E courses_from_parent1 \in Splits(population[i], population[j]) :
       \E children \in {crossover(population[i], population[j], courses_from_parent1)} :
          /\ parent1' = population[i]
          /\ parent2' = population[j]
          /\ child1' = children[1]
          /\ child2' = children[2]
    /\ pc' = "crossed"
    /\ UNCHANGED <<cat, sidewaysVars, restartVars, runVars, gui, neighborVars, objectVars,
                   fillVars, total_penalty, hcVars, results, annealVars, gaVars>>

CrossNext ==
    \/ FillStep \/ FillNextClass \/ FillReturn
    \/ AddIndividual \/ Crossover

SpecCross == CrossInit /\ [][CrossNext]_vars

\* the meetings of one class in a schedule, in order
MeetingsOf(s, code) ==
    LET OfClass(m) == m.course_class = code IN SelectSeq(s, OfClass)

\* how often a meeting occurs in a schedule
Occurrences(s, m) == Cardinality({k \in 1..Len(s) : s[k] = m})

\* C10: for every class code each child holds exactly the meetings one parent
\* holds for it, one child taking the class from parent1 and the other from
\* parent2, and the children together hold exactly the parents' meetings.
CrossoverKeepsClassesWhole ==
    pc = "crossed" =>
        /\ \A code \in Codes(parent1) \cup Codes(parent2) :
            \/ /\ MeetingsOf(child1, code) = MeetingsOf(parent1, code)
               /\ MeetingsOf(child2, code) = MeetingsOf(parent2, code)
            \/ /\ MeetingsOf(child1, code) = MeetingsOf(parent2, code)
               /\ MeetingsOf(child2, code) = MeetingsOf(parent1, code)
        /\ \A m \in Range(parent1 \o parent2 \o child1 \o child2) :
            Occurrences(child1 \o child2, m) = Occurrences(parent1 \o parent2, m)

\* two parents that split class A differently have produced a child that is
\* neither parent
CrossoverMixed ==
    /\ pc = "crossed"
    /\ Len(parent1) # Len(parent2)
    /\ child1 \notin {parent1, parent2}
    /\ child2 \notin {parent1, parent2}

----------------------------------------------------------------------------
(* Further properties of HillClimbing.solve *)

\* the rooms every meeting of s refers to are the catalog's own Room objects
CatalogRooms(s) == \A k \in 1..Len(s) : s[k].room.obj = 0

\* C15 (as claimed): every meeting of the filled schedule, of every
\* neighbour, of the schedule the search stands on and of the best schedule
\* it retains and returns refers to the catalog's own Room object.
CatalogObjectsShared ==
    Searching =>
        /\ CatalogRooms(state)
        /\ CatalogRooms(current_state)
        /\ CatalogRooms(best_state)

\* the number of times the search loop's body has run when the loop is left:
\* a break leaves i below max_iterations with the body run for 0..i
LoopIterations == Min(iteration + 1, max_iterations)

\* C19 (as claimed): the iteration count of the result record is the number
\* of loop iterations performed and is at most max_iterations.
IterationsCountLoops ==
    pc = "hc_done" =>
        /\ results.iterations = LoopIterations
        /\ results.iterations <= max_iterations

\* C20 (as claimed): whichever meeting, day, start hour and room the move of
\* get_random_neighbor draws, the moved meeting keeps its duration and lies
\* within 7..18.
MoveKeepsDuration ==
    (pc = "stochastic" /\ InRange(iteration, max_iterations)) =>
        \A idx \in 1..Len(current_state) :
        \A day \in DrawDays : \A start_hour \in DrawStarts :
        \A r \in Range(Catalogs[cat].rooms) :
            LET moved == MoveRandom(current_state, idx, day, start_hour, r)[idx].time_slot
            IN  /\ duration(moved) = duration(current_state[idx].time_slot)
                /\ FirstHour <= moved.start_hour
                /\ moved.end_hour <= LastHour

----------------------------------------------------------------------------
(* HillClimbing.solve with every variant: sideways move, random restart    *)
(* and a variant name it does not know.                                     *)

\* largest max_sideways_moves a search is started with
MaxSideways == 1
\* largest max_restarts a search is started with
MaxRestarts == 2

\* float("inf")
Infinity == 1000000

\* the stagnation limit of _sideways_move_hc
StagnationLimit == 100

\* the catalogs solve is run on with all its variants
SolveCatalogs == {5, 8, 9}

\* a variant name solve does not know
UnknownVariants == {"hill_descent"}

\* the restart_variant values _random_restart_hc is called with; the last
\* one is none of the three it tests for
RestartVariants == {"stochastic", "steepest_ascent", "sideways_move", "first_choice"}

\* what no action of solve touches
solveFrame == <<cat, neighborVars, objectVars, fillVars, total_penalty, annealVars, gaVars, crossVars, runVars, gui,
                variant, max_iterations, max_sideways_moves, max_restarts, restart_variant>>

SolveInit ==
    /\ cat \in SolveCatalogs
    /\ pc = "random_fill"
    /\ state = <<>>
    /\ ci = 1
    /\ hours_to_allocate = CreditsAt(cat, 1)
    /\ total_penalty = Idle
    /\ variant \in SolveVariants \cup UnknownVariants
    /\ max_iterations \in 0..MaxIterations
    /\ current_state = <<>>
    /\ current_value = 0
    /\ best_state = <<>>
    /\ best_value = 0
    /\ history = <<>>
    /\ iteration = 0
    /\ best_is_current = FALSE
    /\ results = Idle
    /\ restart_variant \in IF variant = "random_restart" THEN RestartVariants ELSE {"none"}
    /\ max_restarts \in IF variant = "random_restart" THEN 0..MaxRestarts ELSE {0}
    /\ max_sideways_moves \in
          IF "sideways_move" \in {variant, restart_variant} THEN 0..MaxSideways ELSE {0}
    /\ sideways_moves = 0
    /\ stagnation_count = 0
    /\ restart = 0
    /\ best_state_overall = <<>>
    /\ best_value_overall = 0
    /\ best_history_so_far = <<>>
    /\ iterations_per_restart = <<>>
    /\ AnnealIdle
    /\ GAIdle
    /\ CrossIdle
    /\ RunIdle
    /\ GuiIdle
    /\ NeighborIdle
    /\ ObjectIdle

\* solve's else branch: raise ValueError("Unknown Hill Climbing variant")
UnknownVariant ==
    /\ pc = "filled"
    /\ Dispatch(variant) = "raise"
    /\ results' = Raise("ValueError")
    /\ pc' = "hc_raised"
    /\ UNCHANGED <<solveFrame, current_state, current_value, best_state, best_value, history,
                   iteration, best_is_current, sideways_moves, stagnation_count, restart,
                   best_state_overall, best_value_overall, best_history_so_far,
                   iterations_per_restart>>

\* _sideways_move_hc is entered: best_state is the initial schedule itself
SidewaysEnter ==
    /\ pc = "filled"
    /\ Dispatched("sideways_move")
    /\ current_state' = state
    /\ current_value' = Penalty(state)
    /\ best_state' = state
    /\ best_is_current' = TRUE
    /\ best_value' = Penalty(state)
    /\ sideways_moves' = 0
    /\ stagnation_count' = 0
    /\ history' = <<Penalty(state)>>
    /\ iteration' = 0
    /\ pc' = "sideways_move"
    /\ UNCHANGED <<solveFrame, results, restart, best_state_overall, best_value_overall,
                   best_history_so_far, iterations_per_restart>>

\* the indices of the neighbours of least penalty (best_neighbors)
BestNeighbors(values) ==
    {k \in 1..Len(values) : \A j \in 1..Len(values) : values[k] <= values[j]}

\* (mutant) a plateau step is allowed while the counter has not passed the limit
SidewaysLeftInclusive(taken, allowed) == taken <= allowed

\* sideways_moves < max_sideways_moves: a plateau step is still allowed
SidewaysLeft(taken, allowed) == taken < allowed

\* one iteration of _sideways_move_hc
SidewaysStep ==
    /\ pc = "sideways_move"
    /\ InRange(iteration, max_iterations)
    /\ \E neighbors \in {get_all_neighbors(cat, current_state)} :
       IF neighbors = <<>>
       THEN /\ pc' = "hc_return"
            /\ UNCHANGED <<current_state, current_value, best_state, best_value, history,
                           iteration, best_is_current, sideways_moves, stagnation_count>>
       ELSE \E values \in {Penalties(neighbors)} :
            \E c \in BestNeighbors(values) :
              LET best_neighbor_value == values[c]
                  better == best_neighbor_value < current_value
                  sideways == /\ ~better
                              /\ best_neighbor_value = current_value
                              /\ SidewaysLeft(sideways_moves, max_sideways_moves)
                  improved == better /\ best_neighbor_value < best_value
                  moves == IF improved \/ better THEN 0
                           ELSE IF sideways THEN sideways_moves + 1 ELSE sideways_moves
                  stagnation == IF better \/ sideways THEN 0 ELSE stagnation_count + 1
              IN  /\ current_state' = IF better \/ sideways THEN neighbors[c] ELSE current_state
                  /\ current_value' = IF better THEN best_neighbor_value ELSE current_value
                  /\ best_is_current' = IF better \/ sideways THEN FALSE ELSE best_is_current
                  /\ best_state' = IF improved THEN DeepCopy(neighbors[c]) ELSE best_state
                  /\ best_value' = IF improved THEN best_neighbor_value ELSE best_value
                  /\ sideways_moves' = moves
                  /\ stagnation_count' = stagnation
                  /\ IF improved /\ best_neighbor_value = 0
                     THEN pc' = "hc_return" /\ UNCHANGED <<history, iteration>>
                     ELSE /\ history' = Append(history, best_value')
                          /\ IF moves >= max_sideways_moves \/ stagnation > StagnationLimit
                             THEN pc' = "hc_return" /\ UNCHANGED iteration
                             ELSE pc' = pc /\ iteration' = iteration + 1
    /\ UNCHANGED <<solveFrame, results, restart, best_state_overall, best_value_overall,
                   best_history_so_far, iterations_per_restart>>

\* for i in range(max_iterations) of _sideways_move_hc is exhausted
SidewaysExhausted ==
    /\ pc = "sideways_move"
    /\ ~InRange(iteration, max_iterations)
    /\ pc' = "hc_return"
    /\ UNCHANGED <<cat, fillVars, total_penalty, searchVars>>

\* solve fills in the result record of a sideways-move run and returns
SidewaysReturn ==
    /\ pc = "hc_return"
    /\ variant = "sideways_move"
    /\ results' = [best_penalty |-> Penalty(best_state),
                   history |-> history,
                   iterations |-> Len(history),
                   sideways_moves_taken |-> sideways_moves,
                   initial_penalty |-> Penalty(state)]
    /\ pc' = "hc_done"
    /\ UNCHANGED <<solveFrame, current_state, current_value, best_state, best_value, history,
                   iteration, best_is_current, sideways_moves, stagnation_count, restart,
                   best_state_overall, best_value_overall, best_history_so_far,
                   iterations_per_restart>>

\* solve dispatches to _random_restart_hc; the result record so far holds the
\* penalty of the schedule solve was called with
RestartEnter ==
    /\ pc = "filled"
    /\ Dispatch(variant) = "random_restart"
    /\ restart = 0
    /\ results' = [initial_penalty |-> Penalty(state)]
    /\ best_state_overall' = <<>>
    /\ best_value_overall' = Infinity
    /\ best_history_so_far' = <<>>
    /\ iterations_per_restart' = <<>>
    /\ pc' = "random_restart"
    /\ UNCHANGED <<solveFrame, current_state, current_value, best_state, best_value, history,
                   iteration, best_is_current, sideways_moves, stagnation_count, restart>>

\* for i in range(max_restarts): a new State is filled at random
RestartBegin ==
    /\ pc = "random_restart"
    /\ InRange(restart, max_restarts)
    /\ restart' = restart + 1
    /\ StartFill(cat)
    /\ UNCHANGED <<cat, total_penalty, annealVars, gaVars, crossVars, runVars, gui, hcVars,
                   neighborVars, objectVars,
                   results, sidewaysVars, max_restarts, restart_variant, best_state_overall,
                   best_value_overall, best_history_so_far, iterations_per_restart>>

\* (mutant) only the first restart's result is ever retained
BetterOverallFirstOnly(value, overall) == overall = Infinity

\* if current_best_value < best_value_overall
BetterOverall(value, overall) == value < overall

\* the restart's search has returned: the overall best is updated
RestartEnd ==
    /\ pc = "hc_return"
    /\ variant = "random_restart"
    /\ iterations_per_restart' = Append(iterations_per_restart, Len(history))
    /\ LET current_best_value == Penalty(best_state)
           improved == BetterOverall(current_best_value, best_value_overall)
       IN  /\ best_state_overall' = IF improved THEN DeepCopy(best_state) ELSE best_state_overall
           /\ best_value_overall' = IF improved THEN current_best_value ELSE best_value_overall
           /\ best_history_so_far' = IF improved THEN history ELSE best_history_so_far
           /\ pc' = IF improved /\ current_best_value = 0
                    THEN "restart_return" ELSE "random_restart"
    /\ UNCHANGED <<solveFrame, results, current_state, current_value, best_state, best_value,
                   history, iteration, best_is_current, sideways_moves, stagnation_count,
                   restart>>

\* for i in range(max_restarts) is exhausted
RestartExhausted ==
    /\ pc = "random_restart"
    /\ ~InRange(restart, max_restarts)
    /\ pc' = "restart_return"
    /\ UNCHANGED <<cat, fillVars, total_penalty, searchVars>>

\* solve fills in the result record of a random-restart run and returns; with
\* no restart run best_state_overall is None and calculate(None) raises
RestartReturn ==
    /\ pc = "restart_return"
    /\ IF iterations_per_restart = <<>>
       THEN /\ results' = Raise("AttributeError")
            /\ pc' = "hc_raised"
            /\ UNCHANGED best_state
       ELSE /\ best_state' = best_state_overall
            /\ results' = [best_penalty |-> Penalty(best_state_overall),
                           history |-> best_history_so_far,
                           iterations |-> SumSeq(iterations_per_restart),
                           restarts |-> Len(iterations_per_restart),
                           iterations_per_restart |-> iterations_per_restart,
                           initial_penalty |-> results.initial_penalty]
            /\ pc' = "hc_done"
    /\ UNCHANGED <<solveFrame, current_state, current_value, best_value, history, iteration,
                   best_is_current, sideways_moves, stagnation_count, restart,
                   best_state_overall, best_value_overall, best_history_so_far,
                   iterations_per_restart>>

\* solve returns from a stochastic or steepest-ascent run
PlainReturn == variant \in HCVariants /\ HCReturn

SolveNext ==
    \/ FillStep \/ FillNextClass \/ FillReturn
    \/ UnknownVariant
    \/ StochasticEnter \/ StochasticStep
    \/ SteepestEnter \/ SteepestStep
    \/ LoopExhausted \/ PlainReturn
    \/ SidewaysEnter \/ SidewaysStep \/ SidewaysExhausted \/ SidewaysReturn
    \/ RestartEnter \/ RestartBegin \/ RestartEnd \/ RestartExhausted \/ RestartReturn

SpecSolve == SolveInit /\ [][SolveNext]_vars

\* the program stands at the head of a hill-climbing loop
LoopHeads == {"stochastic", "steepest_ascent", "sideways_move"}

\* C12 (as claimed): a hill-climbing loop whose best penalty is 0, were it
\* 0 from the start or not, returns without another iteration, and no
\* restart follows an overall best penalty of 0.
ZeroStopsSearch ==
    [][ /\ (pc \in LoopHeads /\ best_value = 0) => pc' = "hc_return"
        /\ (pc = "random_restart" /\ best_value_overall = 0) => pc' = "restart_return" ]_vars

\* C14 (as claimed): while a search runs and when it returns, the retained
\* best schedule is not the State object the search stands on, so the two
\* share no Allocation and no TimeSlot.
BestOwnsItsMeetings ==
    (pc \in LoopHeads \cup {"hc_return", "hc_done"} /\ current_state # <<>>) =>
        ~best_is_current

\* C16: with a variant name solve does not know, the call raises ValueError
\* as soon as the variant is dispatched on; no search loop is entered, no
\* neighbour is generated, no iteration runs and no result record is built.
UnknownVariantRaises ==
    /\ [](variant \notin SolveVariants =>
            /\ pc \in {"random_fill", "filled", "hc_raised"}
            /\ current_state = <<>>
            /\ best_state = <<>>
            /\ history = <<>>
            /\ iteration = 0
            /\ restart = 0
            /\ results \in {Idle, Raise("ValueError")}
            /\ (pc = "hc_raised" <=> results = Raise("ValueError")))
    /\ [][(pc = "filled" /\ variant \notin SolveVariants) => pc' = "hc_raised"]_vars

\* solve has raised on an unknown variant, called with a filled schedule
UnknownVariantRaised ==
    /\ variant \in UnknownVariants
    /\ pc = "hc_raised"
    /\ state # <<>>
    /\ results = Raise("ValueError")

----------------------------------------------------------------------------
(* SimulatedAnnealing.run.  Its locals current_state, best_state and        *)
(* iteration are the variables of those names; best_penalty is              *)
(* sa_best_penalty.  Temperatures are decimals; the cooling rate 0.5 and    *)
(* the temperatures it yields are exact in binary floating point, and none  *)
(* of them lies between the decimal 0.01 and the float nearest to it.       *)

\* the catalogs run is called on
RunCatalogs == {5, 8, 9}

\* the initial_temp, cooling_rate and min_temp the object is built with
InitialTemps == {Decimal(1, 0), Decimal(2, -2), Decimal(1, -2)}
CoolingRates == {Decimal(5, -1)}
MinTemps == {Decimal(1, -2)}

\* temperature *= self.cooling_rate
DecMul(a, b) == Decimal(a.m * b.m, a.e + b.e)

\* the window of detect_local_optimum and the period of its use
Window == 50

\* detect_local_optimum: penalties are multiples of 0.25, so a spread below
\* 0.01 is a spread of 0
detect_local_optimum(best_objective_history) ==
    IF Len(best_objective_history) < Window THEN FALSE
    ELSE LET n == Len(best_objective_history)
         IN  \A j, k \in (n - Window + 1)..n :
                 best_objective_history[j] = best_objective_history[k]

\* (mutant) the loop goes on while the temperature is above min_temp
LoopingWhileHot == DecLess(sa.min_temp, temperature)

\* while temperature > self.min_temp and iteration < self.max_iterations
Looping == DecLess(sa.min_temp, temperature) /\ iteration < sa.max_iterations

\* the outcomes of random.random() < accept_prob: random() lies in [0, 1)
Accepts(p) == {b \in BOOLEAN : IF b THEN p > 0 ELSE p < One}

\* (mutant) every accepted schedule is taken for the best
ImprovesAlways(penalty, best_penalty) == TRUE

\* if current_penalty < best_penalty
Improves(penalty, best_penalty) == penalty < best_penalty

\* what no action of run touches
runFrame == <<cat, neighborVars, objectVars, fillVars, total_penalty, gaVars, crossVars, sidewaysVars, restartVars,
              gui, variant, max_iterations, current_value, best_value, history, verbose>>

RunInit ==
    /\ cat \in RunCatalogs
    /\ pc = "random_fill"
    /\ state = <<>>
    /\ ci = 1
    /\ hours_to_allocate = CreditsAt(cat, 1)
    /\ total_penalty = Idle
    /\ HCIdle
    /\ AnnealIdle
    /\ GAIdle
    /\ CrossIdle
    /\ RestartIdle
    /\ GuiIdle
    /\ NeighborIdle
    /\ ObjectIdle
    /\ \E initial_temp \in InitialTemps, cooling_rate \in CoolingRates, min_temp \in MinTemps,
          iterations \in 0..MaxIterations :
          sa = [initial_temp |-> initial_temp,
                cooling_rate |-> cooling_rate,
                min_temp |-> min_temp,
                max_iterations |-> iterations,
                objective_history |-> <<>>,
                acceptance_prob_history |-> <<>>,
                temperature_history |-> <<>>,
                best_objective_history |-> <<>>,
                local_optima_count |-> 0,
                iterations_stuck |-> <<>>]
    /\ verbose \in BOOLEAN
    /\ sa_best_penalty = 0
    /\ last_stuck_check = 0

\* the result record of run
RunResults(self, final_penalty, best, iterations) ==
    [initial_penalty |-> self.objective_history[1],
     final_penalty |-> final_penalty,
     best_penalty |-> best,
     iterations |-> iterations,
     objective_history |-> self.objective_history,
     acceptance_prob_history |-> self.acceptance_prob_history,
     temperature_history |-> self.temperature_history,
     best_objective_history |-> self.best_objective_history,
     local_optima_count |-> self.local_optima_count,
     iterations_stuck |-> self.iterations_stuck]

\* run up to its main loop: the schedule is filled, copied and evaluated;
\* under `if verbose:` a schedule of penalty 0 is returned at once
RunEnter ==
    /\ pc = "filled"
    /\ sa # Idle
    /\ current_state' = state
    /\ current_penalty' = Penalty(state)
    /\ best_state' = DeepCopy(state)
    /\ best_is_current' = FALSE
    /\ sa_best_penalty' = Penalty(state)
    /\ temperature' = sa.initial_temp
    /\ sa' = [sa EXCEPT !.objective_history = <<Penalty(state)>>,
                        !.acceptance_prob_history = <<>>,
                        !.temperature_history = <<sa.initial_temp>>,
                        !.best_objective_history = <<Penalty(state)>>,
                        !.local_optima_count = 0,
                        !.iterations_stuck = <<>>]
    /\ iteration' = 0
    /\ last_stuck_check' = 0
    /\ IF verbose /\ Penalty(state) = 0
       THEN results' = RunResults(sa', Penalty(state), Penalty(state), 0) /\ pc' = "sa_done"
       ELSE pc' = "sa_loop" /\ UNCHANGED results
    /\ UNCHANGED <<runFrame, neighbor_penalty, accept_prob>>

\* one iteration of the main loop; a schedule without meetings has no
\* neighbour, and calculate(None) raises
RunStep ==
    /\ pc = "sa_loop"
    /\ Looping
    /\ IF current_state = <<>>
       THEN /\ results' = Raise("AttributeError")
            /\ pc' = "sa_raised"
            /\ UNCHANGED <<current_state, current_penalty, best_state, best_is_current,
                           sa_best_penalty, temperature, sa, iteration, last_stuck_check,
                           neighbor_penalty, accept_prob>>
       ELSE \E neighbor_state \in get_random_neighbor(cat, current_state) :
            \E p \in {acceptance_probability(current_penalty, Penalty(neighbor_state),
                                             temperature)} :
            \E accepted \in Accepts(p.value) :
              LET np == Penalty(neighbor_state)
                  improved == accepted /\ Improves(np, sa_best_penalty)
                  perfect == improved /\ np = 0
                  cooled == DecMul(temperature, sa.cooling_rate)
                  check == iteration - last_stuck_check >= Window
                  bests == Append(sa.best_objective_history, sa_best_penalty')
                  stuck == check /\ detect_local_optimum(bests)
              IN  /\ neighbor_penalty' = np
                  /\ accept_prob' = p
                  /\ current_state' = IF accepted THEN neighbor_state ELSE current_state
                  /\ current_penalty' = IF accepted THEN np ELSE current_penalty
                  /\ best_state' = IF improved THEN DeepCopy(neighbor_state) ELSE best_state
                  /\ best_is_current' = FALSE
                  /\ sa_best_penalty' = IF improved THEN np ELSE sa_best_penalty
                  /\ IF perfect
                     THEN /\ sa' = [sa EXCEPT !.acceptance_prob_history = Append(@, p.value)]
                          /\ pc' = "sa_finish"
                          /\ UNCHANGED <<temperature, iteration, last_stuck_check>>
                     ELSE /\ sa' = [sa EXCEPT
                                 !.acceptance_prob_history = Append(@, p.value),
                                 !.objective_history = Append(@, current_penalty'),
                                 !.best_objective_history = bests,
                                 !.temperature_history = Append(@, cooled),
                                 !.local_optima_count = IF stuck THEN @ + 1 ELSE @,
                                 !.iterations_stuck = IF stuck THEN Append(@, iteration) ELSE @]
                          /\ temperature' = cooled
                          /\ last_stuck_check' = IF check THEN iteration ELSE last_stuck_check
                          /\ iteration' = iteration + 1
                          /\ pc' = pc
                  /\ UNCHANGED results
    /\ UNCHANGED runFrame

\* the loop condition fails
RunExit ==
    /\ pc = "sa_loop"
    /\ ~Looping
    /\ pc' = "sa_finish"
    /\ UNCHANGED <<cat, fillVars, total_penalty, searchVars>>

\* run builds its result record and returns
RunReturn ==
    /\ pc = "sa_finish"
    /\ results' = RunResults(sa, current_penalty, sa_best_penalty, iteration)
    /\ pc' = "sa_done"
    /\ UNCHANGED <<runFrame, current_state, current_penalty, best_state, best_is_current,
                   sa_best_penalty, temperature, sa, iteration, last_stuck_check,
                   neighbor_penalty, accept_prob>>

RunNext ==
    \/ FillStep \/ FillNextClass \/ FillReturn
    \/ RunEnter \/ RunStep \/ RunExit \/ RunReturn

SpecRun == RunInit /\ [][RunNext]_vars

\* C13 (as claimed): once the best penalty is 0, were it 0 from the start
\* or not, run executes no further iteration of its loop, whatever verbose.
ZeroStopsAnnealing ==
    [][(pc = "sa_loop" /\ sa_best_penalty = 0) => pc' = "sa_finish"]_vars

\* C17 (as claimed): with no class or no room in the catalogs, run returns
\* no result record and its loop is not entered.
EmptyCatalogRaises ==
    (Catalogs[cat].classes = <<>> \/ Catalogs[cat].rooms = <<>>) =>
        pc \notin {"sa_loop", "sa_finish", "sa_done"}

----------------------------------------------------------------------------
(* SchedulerGUI: the Run button starts a worker thread that fills a        *)
(* schedule and calls HillClimbing.solve; the Cancel button is served by   *)
(* the window's own thread while the worker runs.  One step of the worker  *)
(* is one step of the search, so a cancellation falls between two          *)
(* iterations.                                                              *)

\* the catalogs loaded into the window
GuiCatalogs == {5, 8}

\* what neither button and no step of the worker outside solve touches
guiFrame == <<cat, neighborVars, objectVars, total_penalty, hcVars, results, annealVars, gaVars, crossVars,
              sidewaysVars, restartVars, runVars>>

GuiInit ==
    /\ cat \in GuiCatalogs
    /\ pc = "gui_ready"
    /\ state = <<>>
    /\ ci = 1
    /\ hours_to_allocate = 0
    /\ total_penalty = Idle
    /\ variant \in SolveVariants
    /\ max_iterations \in 0..MaxIterations
    /\ current_state = <<>>
    /\ current_value = 0
    /\ best_state = <<>>
    /\ best_value = 0
    /\ history = <<>>
    /\ iteration = 0
    /\ best_is_current = FALSE
    /\ results = Idle
    /\ restart_variant = "steepest_ascent"
    /\ max_restarts \in IF variant = "random_restart" THEN 0..MaxRestarts ELSE {0}
    /\ max_sideways_moves \in IF variant = "sideways_move" THEN 0..MaxSideways ELSE {0}
    /\ sideways_moves = 0
    /\ stagnation_count = 0
    /\ restart = 0
    /\ best_state_overall = <<>>
    /\ best_value_overall = 0
    /\ best_history_so_far = <<>>
    /\ iterations_per_restart = <<>>
    /\ AnnealIdle
    /\ GAIdle
    /\ CrossIdle
    /\ RunIdle
    /\ gui = [is_running |-> FALSE,
              cancel_requested |-> FALSE,
              cancel_button |-> "disabled",
              algorithm_results |-> Idle]
    /\ NeighborIdle
    /\ ObjectIdle

\* run_algorithm: the flags are set and the worker thread is started
RunAlgorithm ==
    /\ pc = "gui_ready"
    /\ ~gui.is_running
    /\ gui' = [gui EXCEPT !.is_running = TRUE,
                          !.cancel_requested = FALSE,
                          !.cancel_button = "normal"]
    /\ pc' = "gui_worker"
    /\ UNCHANGED <<guiFrame, fillVars>>

\* cancel_algorithm, the command of the Cancel button
CancelAlgorithm ==
    /\ gui.cancel_button = "normal"
    /\ gui.is_running
    /\ gui' = [gui EXCEPT !.cancel_requested = TRUE, !.cancel_button = "disabled"]
    /\ UNCHANGED <<guiFrame, fillVars, pc>>

\* _run_hill_climbing up to random_fill: return if cancelled, else fill
WorkerStart ==
    /\ pc = "gui_worker"
    /\ IF gui.cancel_requested
       THEN pc' = "gui_finally" /\ UNCHANGED fillVars
       ELSE StartFill(cat)
    /\ UNCHANGED <<guiFrame, gui>>

\* _run_hill_climbing after random_fill: return if cancelled
CancelledBeforeSolve ==
    /\ pc = "filled"
    /\ restart = 0
    /\ gui.cancel_requested
    /\ pc' = "gui_finally"
    /\ UNCHANGED <<guiFrame, fillVars, gui>>

\* hc.solve is called (not cancelled so far), or a restart enters its search
SolveCalled ==
    /\ restart = 0 => ~gui.cancel_requested
    /\ \/ StochasticEnter \/ SteepestEnter \/ SidewaysEnter \/ RestartEnter

\* _run_hill_climbing after solve: the result is dropped if cancelled, else
\* it is stored for display
WorkerAfterSolve ==
    /\ pc = "hc_done"
    /\ gui' = IF gui.cancel_requested THEN gui
              ELSE [gui EXCEPT !.algorithm_results = results]
    /\ pc' = "gui_finally"
    /\ UNCHANGED <<guiFrame, fillVars>>

\* _execute_algorithm: except Exception logs the error
WorkerRaised ==
    /\ pc = "hc_raised"
    /\ pc' = "gui_finally"
    /\ UNCHANGED <<guiFrame, fillVars, gui>>

\* _execute_algorithm: finally
WorkerFinally ==
    /\ pc = "gui_finally"
    /\ gui' = [gui EXCEPT !.is_running = FALSE,
                          !.cancel_requested = FALSE,
                          !.cancel_button = "disabled"]
    /\ pc' = "gui_idle"
    /\ UNCHANGED <<guiFrame, fillVars>>

GuiNext ==
    \/ RunAlgorithm \/ CancelAlgorithm
    \/ WorkerStart
    \/ FillStep \/ FillNextClass \/ FillReturn
    \/ CancelledBeforeSolve \/ SolveCalled
    \/ StochasticStep \/ SteepestStep \/ LoopExhausted \/ PlainReturn
    \/ SidewaysStep \/ SidewaysExhausted \/ SidewaysReturn
    \/ RestartBegin \/ RestartEnd \/ RestartExhausted \/ RestartReturn
    \/ WorkerAfterSolve \/ WorkerRaised \/ WorkerFinally

SpecGui == GuiInit /\ [][GuiNext]_vars

\* C18 (as claimed): once cancellation is requested the search runs no
\* further iteration and begins no further restart.
CancelStopsSearch ==
    [][gui.cancel_requested => (iteration' <= iteration /\ restart' = restart)]_vars

----------------------------------------------------------------------------
(* Every search on the catalog of one class of one hour and 20 students    *)
(* with one room of 10 seats: hill climbing in all its variants, simulated *)
(* annealing and the genetic algorithm.                                     *)

\* the catalog with one class and one room
OneClassCatalog == 8

OneInit == cat = OneClassCatalog /\ (SolveInit \/ RunInit \/ GAInit)

OneNext ==
    \/ variant # "none" /\ SolveNext
    \/ sa # Idle /\ RunNext
    \/ population_size > 0 /\ GANext

SpecOne == OneInit /\ [][OneNext]_vars

\* the complete schedules the program holds
Schedules ==
    (IF pc = "random_fill" THEN {} ELSE {state})
        \cup {current_state, best_state, best_state_overall}
        \cup Range(population) \cup Range(new_population)

\* the neighbours the generators return for the schedule a search stands on
Neighbours ==
    IF pc \in LoopHeads \cup {"sa_loop"} /\ current_state # <<>>
    THEN get_random_neighbor(cat, current_state)
             \cup Range(get_all_neighbors(cat, current_state))
    ELSE {}

\* the children crossover and mutate make of the individuals of a population
Children ==
    IF pc = "ga_offspring"
    THEN UNION { UNION { MaybeMutated(cat, crossover(p1, p2, h)[1])
                             \cup MaybeMutated(cat, crossover(p1, p2, h)[2]) :
                         h \in Splits(p1, p2) } :
                 <<p1, p2>> \in Range(population) \X Range(population) }
    ELSE {}

\* C11: with one class (1 credit, 20 students) and one room (10 seats) every
\* schedule random_fill, the neighbour generators, crossover and mutate
\* produce has penalty exactly 10, and every search reports 10 as its best.
OneClassPenaltyIsTen ==
    cat = OneClassCatalog =>
        /\ \A s \in (Schedules \cup Neighbours \cup Children) \ {<<>>} : Penalty(s) = 4 * 10
        /\ pc = "hc_done" => results.best_penalty = 4 * 10
        /\ pc = "sa_done" => results.best_penalty = 4 * 10 /\ results.final_penalty = 4 * 10
        /\ pc = "ga_done" =>
              /\ results.final_penalty = 4 * 10
              /\ \A k \in 1..Len(results.best_penalty_history) :
                     results.best_penalty_history[k] = 4 * 10

\* a sideways-move run on the one-class catalog has moved the meeting and
\* reported its best penalty
OneClassMovedAndReported ==
    /\ cat = OneClassCatalog
    /\ pc = "hc_done"
    /\ variant = "sideways_move"
    /\ Placement(current_state) # Placement(state)
    /\ results.best_penalty = 4 * 10

----------------------------------------------------------------------------
(* The two neighbour generators of State, each called once on a schedule    *)
(* that random_fill has just filled.                                        *)

\* the catalogs the generators are called on: three meetings in one room,
\* two meetings and two rooms, a single meeting, no meeting
NeighborCatalogs == {2, 4, 8, 9}

\* what get_random_neighbor returns: None, or a State with the operation
\* that produced it
NoNeighbor == [is_none |-> TRUE, operation |-> "none", meetings |-> <<>>]
Neighbor(operation, meetings) ==
    [is_none |-> FALSE, operation |-> operation, meetings |-> meetings]

\* State.get_random_neighbor as a whole: `if not self.meetings: return None`,
\* then a swap when random.choice gave "swap" and n >= 2, a move otherwise
RandomNeighborResults(c, s) ==
    IF s = <<>> THEN {NoNeighbor}
    ELSE LET n == Len(s)
             swaps == IF n >= 2
                      THEN {SwapRandom(s, q[1], q[2]) :
                               q \in {x \in (1..n) \X (1..n) : x[1] # x[2]}}
                      ELSE {}
             moves == {MoveRandom(s, q[1], q[2], q[3], q[4]) :
                          q \in (1..n) \X DrawDays \X DrawStarts \X Range(Catalogs[c].rooms)}
         IN  {Neighbor("swap", m) : m \in swaps} \cup {Neighbor("move", m) : m \in moves}

\* the meetings of self once get_random_neighbor has returned: the neighbour
\* is built from new Allocation and TimeSlot objects, so what the swap or the
\* move assigns does not reach them
SelfAfterNeighbor(s, returned) == s

NeighborInit ==
    /\ cat \in NeighborCatalogs
    /\ pc = "random_fill"
    /\ state = <<>>
    /\ ci = 1
    /\ hours_to_allocate = CreditsAt(cat, 1)
    /\ total_penalty = Idle
    /\ SearchIdle

\* neighbor = state.get_random_neighbor(rooms)
RandomNeighbor ==
    /\ pc = "filled"
    /\ \E returned \in RandomNeighborResults(cat, state) :
          /\ random_neighbor' = returned
          /\ state' = SelfAfterNeighbor(state, returned)
    /\ pc' = "neighbor_returned"
    /\ UNCHANGED <<cat, ci, hours_to_allocate, total_penalty, hcVars, results, annealVars,
                   gaVars, crossVars, sidewaysVars, restartVars, runVars, gui, all_neighbors, objectVars>>

\* neighbors = state.get_all_neighbors(rooms)
AllNeighbors ==
    /\ pc = "filled"
    /\ all_neighbors' = get_all_neighbors(cat, state)
    /\ pc' = "neighbors_returned"
    /\ UNCHANGED <<cat, fillVars, total_penalty, hcVars, results, annealVars,
                   gaVars, crossVars, sidewaysVars, restartVars, runVars, gui, random_neighbor, objectVars>>

NeighborNext ==
    \/ FillStep \/ FillNextClass \/ FillReturn
    \/ RandomNeighbor
    \/ AllNeighbors

SpecNeighbor == NeighborInit /\ [][NeighborNext]_vars

\* the (TimeSlot, Room) pair of a meeting
SlotAndRoom(m) == <<m.time_slot, m.room>>

\* the positions where schedule n differs from schedule s
Changed(s, n) == {k \in 1..Len(s) : SlotAndRoom(n[k]) # SlotAndRoom(s[k])}

\* n is s with the (TimeSlot, Room) pairs of two distinct positions exchanged
Exchanged(s, n) ==
    \E i, j \in 1..Len(s) :
        /\ i # j
        /\ SlotAndRoom(n[i]) = SlotAndRoom(s[j])
        /\ SlotAndRoom(n[j]) = SlotAndRoom(s[i])
        /\ Changed(s, n) \subseteq {i, j}

Replaced(s, i, day, start_hour, r) ==
    [Placement(s) EXCEPT ![i] =
        <<s[i].course_class,
          TimeSlot(day, start_hour, start_hour + duration(s[i].time_slot)), r>>]

\* the placements of s with those of meetings i and j exchanged
Transposed(s, i, j) ==
    [k \in 1..Len(s) |->
        IF k = i THEN <<s[i].course_class, s[j].time_slot, s[j].room.code>>
        ELSE IF k = j THEN <<s[j].course_class, s[i].time_slot, s[i].room.code>>
        ELSE Placement(s)[k]]

\* the complete 1-move and 1-swap neighbourhood of s, as placements
Neighbourhood(c, s) ==
    LET moves == {Replaced(s, q[1], q[2], q[3], q[4]) :
                    q \in {x \in (1..Len(s)) \X (0..LastWeekday) \X (FirstHour..LastHour)
                                  \X Range(Catalogs[c].rooms) :
                             /\ x[3] + duration(s[x[1]].time_slot) <= LastHour
                             /\ <<x[2], x[3], x[4]>> # <<s[x[1]].time_slot.day,
                                                         s[x[1]].time_slot.start_hour,
                                                         s[x[1]].room.code>>}}
        swaps == {Transposed(s, q[1], q[2]) :
                    q \in {x \in (1..Len(s)) \X (1..Len(s)) :
                             /\ x[1] < x[2]
                             /\ <<s[x[1]].time_slot, s[x[1]].room.code>> #
                                <<s[x[2]].time_slot, s[x[2]].room.code>>}}
    IN  moves \cup swaps

\* C22: called on a schedule whose meetings hold the catalog's rooms,
\* get_all_neighbors returns every schedule of the 1-move and 1-swap
\* neighbourhood exactly once and nothing else: every meeting at every
\* (weekday, start hour in 7..18-d, room) but its own, its duration d kept
\* and nothing else changed, and every pair of meetings with different
\* (TimeSlot, Room) pairs exchanged.
AllNeighborsExact ==
    (pc = "neighbors_returned" /\ CatalogRooms(state)) =>
        \E expected \in {Neighbourhood(cat, state)} :
        \E returned \in {[k \in 1..Len(all_neighbors) |-> Placement(all_neighbors[k])]} :
            /\ Len(returned) = Cardinality(expected)
            /\ \A k \in 1..Len(returned) : returned[k] \in expected
            /\ \A e \in expected : \E k \in 1..Len(returned) : returned[k] = e

\* the neighbourhood of a schedule with a two-hour meeting has been returned:
\* it holds a swap, and a move of the two-hour meeting to the last start
\* hour that fits
AllNeighborsReturned ==
    /\ pc = "neighbors_returned"
    /\ CatalogRooms(state)
    /\ \E k \in 1..Len(all_neighbors) :
          Cardinality(Changed(state, all_neighbors[k])) >= 2
    /\ \E k \in 1..Len(all_neighbors) :
          \E i \in 1..Len(state) :
              /\ duration(state[i].time_slot) = 2
              /\ all_neighbors[k][i].time_slot.start_hour = LastHour - 2
              /\ all_neighbors[k][i].time_slot.end_hour = LastHour

----------------------------------------------------------------------------
(* The stochastic variant *)

\* C23: in _stochastic_hc the schedule the search stands on is replaced only
\* by a neighbour of strictly lower penalty, so its penalty strictly
\* decreases with every accepted step and never changes otherwise; a
\* neighbour of equal or higher penalty is never moved to; and the tracked
\* best penalty equals the current penalty throughout.
StochasticStrictDescent ==
    /\ [](pc = "stochastic" =>
            /\ best_value = current_value
            /\ current_value = Penalty(current_state))
    /\ [][pc = "stochastic" =>
            /\ current_state' # current_state =>
                  /\ current_value' < current_value
                  /\ Penalty(current_state') < Penalty(current_state)
            /\ current_state' = current_state => current_value' = current_value
            /\ best_value' = current_value' ]_vars

\* the stochastic search has moved to a neighbour and goes on
StochasticDescended ==
    /\ pc = "stochastic"
    /\ variant = "stochastic"
    /\ Len(history) >= 2
    /\ current_state # state
    /\ current_value < history[1]
    /\ current_value > 0

\* a budget longer than the only stagnation limit hill_climb.py knows (the
\* 100 iterations of the sideways-move variant)
LongBudget == StagnationLimit + 1

\* the catalogs of the long stochastic runs: two one-hour classes in one room
\* (penalty 0 unless they collide) and the one class that never fits
StagnateCatalogs == {5, 8}

\* solve(initial_state, "stochastic", max_iterations = LongBudget)
StagnateInit ==
    /\ cat \in StagnateCatalogs
    /\ pc = "random_fill"
    /\ state = <<>>
    /\ ci = 1
    /\ hours_to_allocate = CreditsAt(cat, 1)
    /\ total_penalty = Idle
    /\ variant = "stochastic"
    /\ max_iterations = LongBudget
    /\ current_state = <<>>
    /\ current_value = 0
    /\ best_state = <<>>
    /\ best_value = 0
    /\ history = <<>>
    /\ iteration = 0
    /\ best_is_current = FALSE
    /\ results = Idle
    /\ AnnealIdle
    /\ GAIdle
    /\ CrossIdle
    /\ RestartIdle
    /\ RunIdle
    /\ GuiIdle
    /\ NeighborIdle
    /\ ObjectIdle

StagnateNext ==
    \/ FillStep \/ FillNextClass \/ FillReturn
    \/ StochasticEnter \/ StochasticStep
    \/ LoopExhausted \/ HCReturn

SpecStagnate == StagnateInit /\ [][StagnateNext]_vars

\* the iterations without improvement that end the history
Stagnation(h) ==
    Len(h) - (CHOOSE k \in 1..Len(h) :
                 /\ \A j \in k..Len(h) : h[j] = h[Len(h)]
                 /\ (k > 1 => h[k - 1] # h[Len(h)]))

\* C24 (as claimed): the stochastic variant stops at max_iterations or,
\* earlier, after a stagnation window of consecutive iterations without
\* improvement: once the best penalty has not improved for as many
\* iterations as the stagnation limit, no further neighbour is drawn.
StagnationStopsStochastic ==
    [][(pc = "stochastic" /\ Stagnation(history) >= StagnationLimit) =>
          iteration' = iteration]_vars

----------------------------------------------------------------------------
(* The sideways-move variant *)

SidewaysCatalogs == {6}

\* solve(initial_state, "sideways_move", max_iterations, max_sideways_moves = ...)
SidewaysInit ==
    /\ cat \in SidewaysCatalogs
    /\ pc = "random_fill"
    /\ state = <<>>
    /\ ci = 1
    /\ hours_to_allocate = CreditsAt(cat, 1)
    /\ total_penalty = Idle
    /\ variant = "sideways_move"
    /\ max_iterations \in 0..MaxIterations
    /\ current_state = <<>>
    /\ current_value = 0
    /\ best_state = <<>>
    /\ best_value = 0
    /\ history = <<>>
    /\ iteration = 0
    /\ best_is_current = FALSE
    /\ results = Idle
    /\ restart_variant = "none"
    /\ max_restarts = 0
    /\ max_sideways_moves \in 0..MaxSideways
    /\ sideways_moves = 0
    /\ stagnation_count = 0
    /\ restart = 0
    /\ best_state_overall = <<>>
    /\ best_value_overall = 0
    /\ best_history_so_far = <<>>
    /\ iterations_per_restart = <<>>
    /\ AnnealIdle
    /\ GAIdle
    /\ CrossIdle
    /\ RunIdle
    /\ GuiIdle
    /\ NeighborIdle
    /\ ObjectIdle

SidewaysNext ==
    \/ FillStep \/ FillNextClass \/ FillReturn
    \/ SidewaysEnter \/ SidewaysStep \/ SidewaysExhausted \/ SidewaysReturn

SpecSideways == SidewaysInit /\ [][SidewaysNext]_vars

\* C27 (as claimed): an iteration of _sideways_move_hc that moves to a
\* strictly better neighbour does not end the search with the forced
\* "max sideways moves reached" halt: unless the new penalty is 0 the loop
\* goes on to its next iteration, with max_sideways_moves = 0 as with any
\* other value.
ImprovementKeepsSearching ==
    [][(pc = "sideways_move" /\ current_value' < current_value /\ current_value' > 0) =>
          (pc' = "sideways_move" /\ iteration' = iteration + 1)]_vars

----------------------------------------------------------------------------
(* The random-restart variant and the result record *)

\* the restart_variant names _random_restart_hc tests for
KnownRestartVariants == {"stochastic", "steepest_ascent", "sideways_move"}

UnknownRestartVariantRaises ==
    /\ []((variant = "random_restart" /\ restart_variant \notin KnownRestartVariants) =>
            /\ restart = 0
            /\ pc \in {"random_fill", "filled", "hc_raised"})
    /\ [][(variant = "random_restart" /\ restart_variant \notin KnownRestartVariants
             /\ pc = "filled") => pc' = "hc_raised"]_vars

\* C30 (as claimed): for every variant the best_penalty of the record solve
\* returns is at most its initial_penalty.
BestNeverAboveInitial ==
    pc = "hc_done" => results.best_penalty <= results.initial_penalty

\* C30: for the variants stochastic, steepest_ascent and sideways_move the
\* best_penalty of the record solve returns is at most its initial_penalty,
\* the penalty of the schedule the caller passed; for random_restart it is
\* the least best penalty of the trials, none of which starts from that
\* schedule.
DirectBestNeverAboveInitial ==
    /\ (pc = "hc_done" /\ variant # "random_restart") =>
          /\ results.initial_penalty = Penalty(state)
          /\ results.best_penalty <= results.initial_penalty
    /\ (pc = "hc_done" /\ variant = "random_restart") =>
          results.best_penalty = best_value_overall

\* a direct variant has returned a schedule better than the one it was given
DirectImproved ==
    /\ pc = "hc_done"
    /\ variant \in KnownRestartVariants
    /\ results.best_penalty < results.initial_penalty
    /\ results.best_penalty = Penalty(best_state)


----------------------------------------------------------------------------
(* The sideways-move variant at a strict local optimum.  A move to a free  *)
(* slot never adds penalty, so a schedule all of whose neighbours are      *)
(* strictly worse has no free slot in any room: it fills the week.         *)

\* one timetable random_fill can draw for a week catalog: each day is tiled
\* by meetings starting at 7, 10, 13 and 16, the first half of the classes
\* in the first room and the second half, at the same times, in the second
WeekSchedule(c) ==
    LET classes == Catalogs[c].classes
        half == Len(classes) \div 2
        tiles == (LastHour - FirstHour + MaxDuration - 1) \div MaxDuration
    IN  [k \in 1..Len(classes) |->
            LET q == (k - 1) % half
                start_hour == FirstHour + MaxDuration * (q % tiles)
            IN  Allocation(classes[k],
                           TimeSlot(q \div tiles, start_hour,
                                    start_hour + Catalogs[c].credits[classes[k]]),
                           Room(Catalogs[c].rooms[IF k <= half THEN 1 ELSE 2], 0))]
        \o <<>>

\* solve(initial_state, "sideways_move", max_iterations, max_sideways_moves):
\* on catalog 6 after any random_fill, on the week catalog after the
\* random_fill that drew WeekSchedule, with iterations and sideways moves left
WeekInit ==
    /\ cat \in SidewaysCatalogs \cup WeekCatalogs
    /\ pc = IF cat \in WeekCatalogs THEN "filled" ELSE "random_fill"
    /\ state = IF cat \in WeekCatalogs THEN WeekSchedule(cat) ELSE <<>>
    /\ ci = IF cat \in WeekCatalogs THEN Len(Catalogs[cat].classes) + 1 ELSE 1
    /\ hours_to_allocate = CreditsAt(cat, ci)
    /\ total_penalty = Idle
    /\ variant = "sideways_move"
    /\ max_iterations \in IF cat \in WeekCatalogs THEN {MaxIterations} ELSE 0..MaxIterations
    /\ current_state = <<>>
    /\ current_value = 0
    /\ best_state = <<>>
    /\ best_value = 0
    /\ history = <<>>
    /\ iteration = 0
    /\ best_is_current = FALSE
    /\ results = Idle
    /\ restart_variant = "none"
    /\ max_restarts = 0
    /\ max_sideways_moves \in IF cat \in WeekCatalogs THEN {MaxSideways} ELSE 0..MaxSideways
    /\ sideways_moves = 0
    /\ stagnation_count = 0
    /\ restart = 0
    /\ best_state_overall = <<>>
    /\ best_value_overall = 0
    /\ best_history_so_far = <<>>
    /\ iterations_per_restart = <<>>
    /\ AnnealIdle
    /\ GAIdle
    /\ CrossIdle
    /\ RunIdle
    /\ GuiIdle
    /\ NeighborIdle
    /\ ObjectIdle

SpecWeek == WeekInit /\ [][SidewaysNext]_vars

\* every neighbour of schedule s costs strictly more than value
StrictLocalOptimum(s, value) ==
    \E values \in {Penalties(get_all_neighbors(cat, s))} :
        /\ values # <<>>
        /\ \A k \in 1..Len(values) : values[k] > value

\* C26 (as claimed): an iteration of _sideways_move_hc whose best neighbour
\* is strictly worse than the current schedule declares a local optimum and
\* ends the search in that iteration.
StrictOptimumHalts ==
    [][(pc = "sideways_move" /\ InRange(iteration, max_iterations)
          /\ StrictLocalOptimum(current_state, current_value))
       => pc' = "hc_return"]_vars


----------------------------------------------------------------------------
(* Further properties of GeneticAlgorithm.optimize *)

\* the first individual of least penalty in a population
LeastPenaltyIndex(individuals) ==
    CHOOSE j \in 1..Len(individuals) :
        /\ \A i \in 1..Len(individuals) : Penalty(individuals[j]) <= Penalty(individuals[i])
        /\ \A i \in 1..(j - 1) : Penalty(individuals[i]) > Penalty(individuals[j])

\* C31: at the start of every generation the population holds exactly
\* population_size individuals and fitnesses holds 1/(1+penalty) of each of
\* them, and the new population built from a generation holds that
\* generation's best individual with the same meetings.
GenerationStartsWhole ==
    /\ [](pc = "ga_generation" =>
            /\ Len(population) = population_size
            /\ Len(fitnesses) = population_size
            /\ \A i \in 1..Len(population) :
                  fitnesses[i] = Fitness(Penalty(population[i])))
    /\ [][(pc = "ga_offspring" /\ pc' = "ga_generation") =>
            \E k \in 1..Len(population') :
                population'[k] = population[LeastPenaltyIndex(population)]]_vars

\* a generation has started from a population that was trimmed, in which
\* the individuals differ
GenerationTrimmed ==
    /\ pc = "ga_generation"
    /\ generation >= 1
    /\ Len(new_population) > population_size
    /\ population[1] # population[2]


----------------------------------------------------------------------------
(* GeneticAlgorithm.mutate, called on a child that crossover has built     *)
(* from two individuals of a population initialize_population has filled   *)

\* the catalogs mutate is run on: catalog 2 has a class of two credits,
\* catalog 4 has two rooms
MutateCatalogs == {2, 4}

MutateInit ==
    /\ cat \in MutateCatalogs
    /\ pc = "random_fill"
    /\ state = <<>>
    /\ ci = 1
    /\ hours_to_allocate = CreditsAt(cat, 1)
    /\ total_penalty = Idle
    /\ HCIdle
    /\ results = Idle
    /\ AnnealIdle
    /\ population_size = 2
    /\ generations = 1
    /\ population = <<>>
    /\ fitnesses = <<>>
    /\ generation = 0
    /\ best_penalty_history = <<>>
    /\ new_population = <<>>
    /\ new_fitnesses = <<>>
    /\ CrossIdle
    /\ RestartIdle
    /\ RunIdle
    /\ GuiIdle
    /\ NeighborIdle
    /\ ObjectIdle

\* self.mutate(child1) or self.mutate(child2): the child is changed in place
Mutate ==
    /\ pc = "crossed"
    /\ \/ child1' \in mutate(cat, child1) /\ UNCHANGED child2
       \/ child2' \in mutate(cat, child2) /\ UNCHANGED child1
    /\ pc' = "mutated"
    /\ UNCHANGED <<cat, sidewaysVars, restartVars, runVars, gui, neighborVars, objectVars,
                   fillVars, total_penalty, hcVars, results, annealVars, gaVars,
                   parent1, parent2>>

MutateNext ==
    \/ FillStep \/ FillNextClass \/ FillReturn
    \/ AddIndividual \/ Crossover \/ Mutate

SpecMutate == MutateInit /\ [][MutateNext]_vars

\* b is a with one meeting at another day and start, its duration kept
Retimed(a, b) ==
    /\ Len(b) = Len(a)
    /\ \E i \in 1..Len(a) :
        /\ \A k \in (1..Len(a)) \ {i} : b[k] = a[k]
        /\ b[i].course_class = a[i].course_class
        /\ b[i].room = a[i].room
        /\ duration(b[i].time_slot) = duration(a[i].time_slot)

\* b is a with one meeting in a room of the catalog, nothing else changed
Reroomed(c, a, b) ==
    /\ Len(b) = Len(a)
    /\ \E i \in 1..Len(a) :
        /\ \A k \in (1..Len(a)) \ {i} : b[k] = a[k]
        /\ b[i].course_class = a[i].course_class
        /\ b[i].time_slot = a[i].time_slot
        /\ b[i].room.code \in Range(Catalogs[c].rooms)

\* b is a without the meetings of one class, followed by new meetings of
\* that class summing to its credits
Rescheduled(c, a, b) ==
    \E code \in Codes(a) :
        LET Kept(m) == m.course_class # code
        IN  /\ b = SelectSeq(a, Kept) \o MeetingsOf(b, code)
            /\ ClassHours(b, code) = Catalogs[c].credits[code]

\* C32: the children of a crossover and a mutated child have for every class
\* meetings summing to its credits, in slots within [7,18] of at least one
\* hour; a mutation retimes one meeting keeping its duration, or changes one
\* meeting's room only, or replaces the meetings of one class by new ones
\* summing to its credits.
MutationKeepsCredits ==
    /\ [](pc \in {"crossed", "mutated"} =>
            \A child \in {child1, child2} : CreditsMet(cat, child) /\ SlotsValid(child))
    /\ [][(pc = "crossed" /\ pc' = "mutated") =>
            \A pair \in {<<child1, child1'>>, <<child2, child2'>>} :
                \/ Retimed(pair[1], pair[2])
                \/ Reroomed(cat, pair[1], pair[2])
                \/ Rescheduled(cat, pair[1], pair[2])]_vars

\* a child holding a two-hour meeting of class A has been mutated into one
\* holding A in two meetings of one hour in another order of classes
MutatedByReschedule ==
    /\ pc = "mutated"
    /\ cat = 2
    /\ Len(child1) = 3
    /\ child1[1].course_class = "B"
    /\ \E k \in 1..Len(parent1) : duration(parent1[k].time_slot) = 2
    /\ \E k \in 1..Len(parent2) : duration(parent2[k].time_slot) = 2


----------------------------------------------------------------------------
(* GeneticAlgorithm.optimize with its objects followed by identity.  heap  *)
(* holds the TimeSlot objects (slots), the Allocation objects (allocs: a   *)
(* class code, the number of a TimeSlot object, a room code) and the State *)
(* objects (states: the numbers of their Allocation objects in order); an  *)
(* object is numbered by its place in its list.  population, fitnesses,    *)
(* new_population, new_fitnesses and children are the locals of optimize,  *)
(* individuals being the numbers of State objects.                         *)

\* the catalogs the objects are followed on
AliasCatalogs == {6, 8}

\* the generations followed on a catalog: one where the classes are several
AliasGenerations(c) == IF Len(Catalogs[c].classes) = 1 THEN MaxGenerations ELSE 1

\* the schedule a State object holds, by value (the rooms by their code:
\* the genetic algorithm never compares Room objects)
Deref(h, sid) ==
    [k \in 1..Len(h.states[sid]) |->
        LET a == h.allocs[h.states[sid][k]]
        IN  Allocation(a.course_class, h.slots[a.time_slot], Room(a.room, 0))]

\* State.Allocation(course_class, TimeSlot(...), room) appended to the
\* meetings of State object sid, once for every meeting of the list
RECURSIVE AppendMeetings(_, _, _)
AppendMeetings(h, sid, meetings) ==
    IF meetings = <<>> THEN h
    ELSE LET m == Head(meetings)
             time_slot == Len(h.slots) + 1
             allocation == Len(h.allocs) + 1
         IN  AppendMeetings(
                 [h EXCEPT !.slots = Append(@, m.time_slot),
                           !.allocs = Append(@, [course_class |-> m.course_class,
                                                 time_slot |-> time_slot,
                                                 room |-> m.room.code]),
                           !.states[sid] = Append(@, allocation)],
                 sid, Tail(meetings))

\* individual = State(); individual.random_fill(classes, rooms)
NewIndividual(h, meetings) ==
    AppendMeetings([h EXCEPT !.states = Append(@, <<>>)], Len(h.states) + 1, meetings)

\* every schedule random_fill can return for the classes from the i-th on
RECURSIVE Fills(_, _)
Fills(c, i) ==
    IF i > Len(Catalogs[c].classes) THEN {<<>>}
    ELSE { first \o rest :
             first \in Reschedules(c, ClassAt(c, i), CreditsAt(c, i)),
             rest \in Fills(c, i + 1) }

\* initialize_population, for the schedules its random_fill calls returned
RECURSIVE InitialObjects(_, _)
InitialObjects(h, schedules) ==
    IF schedules = <<>> THEN h
    ELSE InitialObjects(NewIndividual(h, Head(schedules)), Tail(schedules))

\* copy.deepcopy(population[i]): a new State with new Allocation objects and
\* a copy of every TimeSlot object they refer to, a shared one copied once
DeepCopyObjects(h, sid) ==
    LET old == h.states[sid]
        shared == {h.allocs[old[k]].time_slot : k \in 1..Len(old)}
        copy_of(x) == Len(h.slots) + Cardinality({y \in shared : y <= x})
        slot_copies == [j \in 1..Cardinality(shared) |->
                           h.slots[CHOOSE x \in shared : copy_of(x) = Len(h.slots) + j]]
        alloc_copies == [k \in 1..Len(old) |->
                            [h.allocs[old[k]] EXCEPT !.time_slot = copy_of(@)]]
    IN  [h EXCEPT !.slots = @ \o slot_copies,
                  !.allocs = @ \o alloc_copies,
                  !.states = Append(@, [k \in 1..Len(old) |-> Len(h.allocs) + k])]

\* crossover(parent1, parent2): two new State objects whose new Allocation
\* objects take the class, the TimeSlot object and the room of a parent's
CrossObjects(h, p1, p2, courses_from_parent1) ==
    LET In(a) == h.allocs[a].course_class \in courses_from_parent1
        Out(a) == h.allocs[a].course_class \notin courses_from_parent1
        from1 == SelectSeq(h.states[p1], In) \o SelectSeq(h.states[p2], Out)
        from2 == SelectSeq(h.states[p2], In) \o SelectSeq(h.states[p1], Out)
        taken == from1 \o from2
        n == Len(h.allocs)
    IN  [h EXCEPT !.allocs = @ \o [k \in 1..Len(taken) |-> h.allocs[taken[k]]],
                  !.states = @ \o << [k \in 1..Len(from1) |-> n + k],
                                     [k \in 1..Len(from2) |-> n + Len(from1) + k] >>]

\* (mutant) the TimeSlot object of the meeting is changed in place
RetimeInPlace(h, a, time_slot) ==
    [h EXCEPT !.slots[h.allocs[a].time_slot] = time_slot]

\* meeting.time_slot = TimeSlot(new_day, new_start, new_end)
Retime(h, a, time_slot) ==
    [h EXCEPT !.slots = Append(@, time_slot),
              !.allocs[a].time_slot = Len(h.slots) + 1]

\* meeting.room = random.choice(self.room_list)
Reroom(h, a, r) == [h EXCEPT !.allocs[a].room = r]

\* individual.meetings = [m for m in ... if m.course_class.code != code],
\* then the allocation loop appends new meetings
Reschedule(h, sid, code, meetings) ==
    LET Kept(a) == h.allocs[a].course_class # code
    IN  AppendMeetings([h EXCEPT !.states[sid] = SelectSeq(@, Kept)], sid, meetings)

\* every heap mutate(individual) can leave behind
MutateObjects(c, h, sid) ==
    LET meetings == h.states[sid]
        length(k) == duration(h.slots[h.allocs[meetings[k]].time_slot])
    IN  IF meetings = <<>> THEN {h}
        ELSE { Retime(h, meetings[q[1]], TimeSlot(q[2], q[3], q[3] + length(q[1]))) :
                 q \in { x \in (1..Len(meetings)) \X DrawDays \X DrawStarts :
                           x[3] <= LastHour - length(x[1]) } }
             \cup { Reroom(h, meetings[q[1]], q[2]) :
                      q \in (1..Len(meetings)) \X Range(Catalogs[c].rooms) }
             \cup UNION { { Reschedule(h, sid, code, new) :
                              new \in Reschedules(c, code, Catalogs[c].credits[code]) } :
                          code \in Codes(Deref(h, sid)) }

\* the fitness of every individual of a list
FitnessesOf(h, individuals) ==
    [i \in 1..Len(individuals) |-> evaluate_fitness(Deref(h, individuals[i]))]

AliasInit ==
    /\ cat \in AliasCatalogs
    /\ pc = "alias_generation"
    /\ state = <<>>
    /\ ci = 1
    /\ hours_to_allocate = 0
    /\ total_penalty = Idle
    /\ HCIdle
    /\ results = Idle
    /\ AnnealIdle
    /\ population_size \in 2..Max(2, MaxPopulation)
    /\ generations \in 1..AliasGenerations(cat)
    /\ population = <<>>
    /\ fitnesses = <<>>
    /\ generation = 0
    /\ best_penalty_history = <<>>
    /\ new_population = <<>>
    /\ new_fitnesses = <<>>
    /\ CrossIdle
    /\ RestartIdle
    /\ RunIdle
    /\ GuiIdle
    /\ NeighborIdle
    /\ memo = Idle
    /\ runs = Idle
    /\ \E schedules \in [1..population_size -> Fills(cat, 1)] :
         \E h \in {InitialObjects([slots |-> <<>>, allocs |-> <<>>, states |-> <<>>],
                                  schedules)} :
            heap = [slots |-> h.slots, allocs |-> h.allocs, states |-> h.states,
                    population |-> [i \in 1..population_size |-> i],
                    fitnesses |-> FitnessesOf(h, [i \in 1..population_size |-> i]),
                    new_population |-> <<>>, new_fitnesses |-> <<>>,
                    children |-> <<>>]

aliasFrame == <<cat, fillVars, total_penalty, hcVars, results, annealVars, population_size,
                generations, population, fitnesses, best_penalty_history, new_population,
                new_fitnesses, crossVars, sidewaysVars, restartVars, runVars, gui,
                neighborVars, memo, runs>>

\* the head of a generation: early stop, or the elite is deep-copied
AliasGeneration ==
    /\ pc = "alias_generation"
    /\ InRange(generation, generations)
    /\ LET best_fitness_idx == get_best_individual_index(heap.fitnesses)
           best == heap.population[best_fitness_idx]
       IN  IF get_penalty(Deref(heap, best)) = 0
           THEN pc' = "alias_done" /\ UNCHANGED heap
           ELSE /\ heap' = [DeepCopyObjects(heap, best) EXCEPT
                               !.new_population = <<Len(heap.states) + 1>>,
                               !.new_fitnesses = <<heap.fitnesses[best_fitness_idx]>>]
                /\ pc' = "alias_offspring"
    /\ UNCHANGED <<aliasFrame, generation>>

\* selection and crossover of one round of the offspring loop
AliasCrossover ==
    /\ pc = "alias_offspring"
    /\ Len(heap.new_population) < population_size
    /\ \E parent1_idx \in tournament_selection(heap.fitnesses) :
       \E parent2_idx \in tournament_selection(heap.fitnesses) :
       \E courses_from_parent1 \in Splits(Deref(heap, heap.population[parent1_idx]),
                                          Deref(heap, heap.population[parent2_idx])) :
          heap' = [CrossObjects(heap, heap.population[parent1_idx],
                                heap.population[parent2_idx], courses_from_parent1)
                      EXCEPT !.children = <<Len(heap.states) + 1, Len(heap.states) + 2>>]
    /\ pc' = "alias_mutate1"
    /\ UNCHANGED <<aliasFrame, generation>>

\* if random.random() < 0.2: self.mutate(child), for child1 and then child2
AliasMutate ==
    /\ pc \in {"alias_mutate1", "alias_mutate2"}
    /\ heap' \in {heap} \cup
           MutateObjects(cat, heap, heap.children[IF pc = "alias_mutate1" THEN 1 ELSE 2])
    /\ pc' = IF pc = "alias_mutate1" THEN "alias_mutate2" ELSE "alias_evaluate"
    /\ UNCHANGED <<aliasFrame, generation>>

\* the children are evaluated and join the new population
AliasEvaluate ==
    /\ pc = "alias_evaluate"
    /\ heap' = [heap EXCEPT !.new_population = @ \o heap.children,
                            !.new_fitnesses = @ \o FitnessesOf(heap, heap.children),
                            !.children = <<>>]
    /\ pc' = "alias_offspring"
    /\ UNCHANGED <<aliasFrame, generation>>

\* population = new_population[: self.population_size]
AliasNextGeneration ==
    /\ pc = "alias_offspring"
    /\ Len(heap.new_population) >= population_size
    /\ heap' = [heap EXCEPT !.population = Trim(heap.new_population, population_size),
                            !.fitnesses = Trim(heap.new_fitnesses, population_size)]
    /\ generation' = generation + 1
    /\ pc' = "alias_generation"
    /\ UNCHANGED aliasFrame

\* for generation in range(self.generations) is exhausted
AliasExhausted ==
    /\ pc = "alias_generation"
    /\ ~InRange(generation, generations)
    /\ pc' = "alias_done"
    /\ UNCHANGED <<aliasFrame, generation, heap>>

AliasNext ==
    \/ AliasGeneration \/ AliasCrossover \/ AliasMutate \/ AliasEvaluate
    \/ AliasNextGeneration \/ AliasExhausted

SpecAlias == AliasInit /\ [][AliasNext]_vars

\* the individuals of the generation under way: the population and, once
\* it is copied, the elite
GenerationIndividuals(h) ==
    Range(h.population) \cup {h.new_population[k] : k \in 1..Min(1, Len(h.new_population))}

\* a TimeSlot object is shared by a child and an individual of the population
SharesTimeSlot(h, child, individual) ==
    \E k \in 1..Len(h.states[child]) : \E j \in 1..Len(h.states[individual]) :
        h.allocs[h.states[child][k]].time_slot = h.allocs[h.states[individual][j]].time_slot

\* C33: while the next generation is built, no step of the offspring loop
\* (crossover, mutation of a child, evaluation) changes the meetings of an
\* individual of the population or of the elite, and the fitness stored for
\* every individual of the population, and for the elite, is the fitness of
\* its meetings.
ParentsKeepMeetings ==
    /\ [](pc \in {"alias_generation", "alias_offspring", "alias_mutate1",
                  "alias_mutate2", "alias_evaluate"} =>
            /\ \A i \in 1..Len(heap.population) :
                  heap.fitnesses[i] = evaluate_fitness(Deref(heap, heap.population[i]))
            /\ pc # "alias_generation" =>
                  heap.new_fitnesses[1] =
                      evaluate_fitness(Deref(heap, heap.new_population[1])))
    /\ [][(pc \in {"alias_offspring", "alias_mutate1", "alias_mutate2", "alias_evaluate"}) =>
            (\A sid \in GenerationIndividuals(heap) :
                Deref(heap', sid) = Deref(heap, sid))]_vars

\* both children are ready for evaluation in a later generation: one was
\* mutated into a schedule no individual of the population holds, and one
\* still shares a TimeSlot object with an individual of the population
MutatedBesideSharedSlot ==
    /\ pc = "alias_evaluate"
    /\ generation >= 1
    /\ \E child \in Range(heap.children) :
          \A i \in 1..Len(heap.population) :
              Deref(heap, child) # Deref(heap, heap.population[i])
    /\ \E child \in Range(heap.children) : \E individual \in Range(heap.population) :
          SharesTimeSlot(heap, child, individual)


----------------------------------------------------------------------------
(* Further properties of SimulatedAnnealing.run *)

\* the last entry of a history
Last(h) == h[Len(h)]

\* C34 (as claimed): in the record run returns, objective_history,
\* best_objective_history and temperature_history have iterations + 1
\* entries, acceptance_prob_history has iterations entries, and the last
\* entry of best_objective_history is the returned best_penalty, also when
\* the run ended by reaching penalty 0.
HistoriesMatchRecord ==
    pc = "sa_done" =>
        /\ Len(results.objective_history) = results.iterations + 1
        /\ Len(results.best_objective_history) = results.iterations + 1
        /\ Len(results.temperature_history) = results.iterations + 1
        /\ Len(results.acceptance_prob_history) = results.iterations
        /\ Last(results.best_objective_history) = results.best_penalty


\* the cooling rates of the termination check: below, at and above 1
AnyCoolingRates == {Decimal(5, -1), Decimal(1, 0), Decimal(2, 0)}

CoolInit ==
    /\ cat \in RunCatalogs
    /\ pc = "random_fill"
    /\ state = <<>>
    /\ ci = 1
    /\ hours_to_allocate = CreditsAt(cat, 1)
    /\ total_penalty = Idle
    /\ HCIdle
    /\ AnnealIdle
    /\ GAIdle
    /\ CrossIdle
    /\ RestartIdle
    /\ GuiIdle
    /\ NeighborIdle
    /\ ObjectIdle
    /\ \E initial_temp \in InitialTemps, cooling_rate \in AnyCoolingRates, min_temp \in MinTemps,
          iterations \in 0..MaxIterations :
          sa = [initial_temp |-> initial_temp,
                cooling_rate |-> cooling_rate,
                min_temp |-> min_temp,
                max_iterations |-> iterations,
                objective_history |-> <<>>,
                acceptance_prob_history |-> <<>>,
                temperature_history |-> <<>>,
                best_objective_history |-> <<>>,
                local_optima_count |-> 0,
                iterations_stuck |-> <<>>]
    /\ verbose \in BOOLEAN
    /\ sa_best_penalty = 0
    /\ last_stuck_check = 0

\* run has returned or raised
RunEnded == pc \in {"sa_done", "sa_raised"}

\* run is a sequential procedure: until it has ended it goes on taking
\* steps.  This is WF_vars(RunNext) with the enabling condition of RunNext
\* written out as ~RunEnded (see RunGoesOn).
RunFair == []<>RunEnded \/ []<><<TRUE>>_vars

SpecCool == CoolInit /\ [][RunNext]_vars /\ RunFair

\* initial_temp multiplied k times by cooling_rate
RECURSIVE Cooled(_, _, _)
Cooled(initial_temp, cooling_rate, k) ==
    IF k = 0 THEN initial_temp
    ELSE DecMul(Cooled(initial_temp, cooling_rate, k - 1), cooling_rate)

\* two decimals denote the same number
DecEq(a, b) == ~DecLess(a, b) /\ ~DecLess(b, a)

\* until run has ended one of its steps can be taken; the last disjunct is
\* the enabling condition of RunStep, which draws a neighbour unless the
\* schedule is empty
RunGoesOn ==
    \/ RunEnded
    \/ ENABLED FillStep \/ ENABLED FillNextClass \/ ENABLED FillReturn
    \/ ENABLED RunEnter \/ ENABLED RunExit \/ ENABLED RunReturn
    \/ /\ pc = "sa_loop"
       /\ Looping
       /\ current_state = <<>> \/ get_random_neighbor(cat, current_state) # {}

\* C35: run ends, by a return or by an exception, whatever the cooling
\* rate; it executes at most max_iterations loop iterations, each of them
\* at a temperature above min_temp; and after k completed iterations the
\* temperature is initial_temp multiplied k times by cooling_rate.
CoolingRunEnds ==
    /\ <>RunEnded
    /\ []RunGoesOn
    /\ [](pc \in {"sa_loop", "sa_finish", "sa_done"} =>
            /\ iteration <= sa.max_iterations
            /\ Len(sa.acceptance_prob_history) <= sa.max_iterations
            /\ DecEq(temperature, Cooled(sa.initial_temp, sa.cooling_rate, iteration)))
    /\ [][(sa'.acceptance_prob_history # sa.acceptance_prob_history) =>
            DecLess(sa.min_temp, temperature)]_vars

\* a run with a cooling rate of 1 or more has used up its iterations
\* while the temperature is still above min_temp
BudgetEndsHotRun ==
    /\ pc = "sa_done"
    /\ DecLess(Decimal(5, -1), sa.cooling_rate)
    /\ results.iterations = sa.max_iterations
    /\ sa.max_iterations >= 2
    /\ DecLess(sa.min_temp, temperature)


\* the least of a non-empty set of penalties
Least(penalties) == CHOOSE p \in penalties : \A q \in penalties : p <= q

\* best_objective_history never increases from one entry to the next
BestHistoryFalls ==
    \A k \in 1..(Len(sa.best_objective_history) - 1) :
        sa.best_objective_history[k + 1] <= sa.best_objective_history[k]

\* the current schedule changes only in a pass of the loop whose draw can
\* lie below the acceptance probability, and then to the neighbour drawn
ChangesOnAcceptance ==
    [][(pc = "sa_loop" /\ current_state' # current_state) =>
            /\ accept_prob'.value > 0
            /\ current_state' \in get_random_neighbor(cat, current_state)
            /\ current_penalty' = neighbor_penalty']_vars

----------------------------------------------------------------------------
(* Two calls of SimulatedAnnealing.run on one object, one with verbose=True *)
(* and one with verbose=False, that receive the same random draws: the same *)
(* schedule from random_fill, and, pass by pass, the same neighbour and the *)
(* same uniform number wherever the two stand at the same current schedule, *)
(* penalty and temperature.  runs[v] holds the locals of run(verbose=v).    *)

\* run up to its main loop (lines 76-151), as the locals it leaves
RunStart(self, s, v) ==
    LET penalty == Penalty(s)
        started == [self EXCEPT !.objective_history = <<penalty>>,
                                !.acceptance_prob_history = <<>>,
                                !.temperature_history = <<self.initial_temp>>,
                                !.best_objective_history = <<penalty>>,
                                !.local_optima_count = 0,
                                !.iterations_stuck = <<>>]
        at_once == v /\ penalty = 0
    IN  [pc |-> IF at_once THEN "sa_done" ELSE "sa_loop",
         self |-> started,
         current_state |-> s,
         current_penalty |-> penalty,
         best_state |-> DeepCopy(s),
         best_penalty |-> penalty,
         temperature |-> self.initial_temp,
         iteration |-> 0,
         last_stuck_check |-> 0,
         results |-> IF at_once THEN RunResults(started, penalty, penalty, 0) ELSE Idle]

\* while temperature > self.min_temp and iteration < self.max_iterations
RunLooping(r) ==
    DecLess(r.self.min_temp, r.temperature) /\ r.iteration < r.self.max_iterations

\* one pass of the main loop (lines 155-208) with the neighbour drawn and
\* the outcome of random.random() < accept_prob
RunPass(r, neighbor_state, accepted) ==
    LET np == Penalty(neighbor_state)
        p == acceptance_probability(r.current_penalty, np, r.temperature)
        improved == accepted /\ Improves(np, r.best_penalty)
        best == IF improved THEN np ELSE r.best_penalty
        moved == [r EXCEPT !.current_state = IF accepted THEN neighbor_state ELSE @,
                           !.current_penalty = IF accepted THEN np ELSE @,
                           !.best_state = IF improved THEN DeepCopy(neighbor_state) ELSE @,
                           !.best_penalty = best,
                           !.self.acceptance_prob_history = Append(@, p.value)]
        cooled == DecMul(r.temperature, r.self.cooling_rate)
        check == r.iteration - r.last_stuck_check >= Window
        bests == Append(r.self.best_objective_history, best)
        stuck == check /\ detect_local_optimum(bests)
    IN  IF improved /\ np = 0
        THEN [moved EXCEPT !.pc = "sa_finish"]
        ELSE [moved EXCEPT
                 !.self.objective_history = Append(@, moved.current_penalty),
                 !.self.best_objective_history = bests,
                 !.self.temperature_history = Append(@, cooled),
                 !.self.local_optima_count = IF stuck THEN @ + 1 ELSE @,
                 !.self.iterations_stuck = IF stuck THEN Append(@, r.iteration) ELSE @,
                 !.temperature = cooled,
                 !.last_stuck_check = IF check THEN r.iteration ELSE @,
                 !.iteration = @ + 1]

\* calculate(None) raises in a pass on a schedule without meetings
RunRaise(r) == [r EXCEPT !.pc = "sa_raised", !.results = Raise("AttributeError")]

\* the result record is built and returned (lines 210-242)
RunEnd(r) ==
    [r EXCEPT !.pc = "sa_done",
              !.results = RunResults(r.self, r.current_penalty, r.best_penalty, r.iteration)]

\* the two calls stand at the same point of the same search
SameDraws(r1, r2) ==
    /\ r1.pc = r2.pc
    /\ r1.iteration = r2.iteration
    /\ r1.current_state = r2.current_state
    /\ r1.current_penalty = r2.current_penalty
    /\ r1.temperature = r2.temperature

\* the call is in its loop and makes another pass
Passing(r) == r.pc = "sa_loop" /\ RunLooping(r)

\* the call has left its loop and has not returned yet
Leaving(r) == r.pc = "sa_finish" \/ (r.pc = "sa_loop" /\ ~RunLooping(r))

PairInit ==
    /\ cat \in RunCatalogs
    /\ pc = "random_fill"
    /\ state = <<>>
    /\ ci = 1
    /\ hours_to_allocate = CreditsAt(cat, 1)
    /\ total_penalty = Idle
    /\ HCIdle
    /\ AnnealIdle
    /\ GAIdle
    /\ CrossIdle
    /\ RestartIdle
    /\ GuiIdle
    /\ NeighborIdle
    /\ heap = Idle
    /\ memo = Idle
    /\ runs = Idle
    /\ \E initial_temp \in InitialTemps, cooling_rate \in CoolingRates, min_temp \in MinTemps,
          iterations \in 0..MaxIterations :
          sa = [initial_temp |-> initial_temp,
                cooling_rate |-> cooling_rate,
                min_temp |-> min_temp,
                max_iterations |-> iterations,
                objective_history |-> <<>>,
                acceptance_prob_history |-> <<>>,
                temperature_history |-> <<>>,
                best_objective_history |-> <<>>,
                local_optima_count |-> 0,
                iterations_stuck |-> <<>>]
    /\ verbose = FALSE
    /\ sa_best_penalty = 0
    /\ last_stuck_check = 0

pairFrame == <<cat, fillVars, total_penalty, hcVars, results, annealVars, gaVars, crossVars,
               sidewaysVars, restartVars, runVars, gui, neighborVars, heap, memo>>

\* both calls run up to their main loop on the schedule random_fill drew
PairEnter ==
    /\ pc = "filled"
    /\ runs = Idle
    /\ runs' = [v \in BOOLEAN |-> RunStart(sa, state, v)]
    /\ pc' = "sa_pair"
    /\ UNCHANGED pairFrame

\* a pass of the loop with one neighbour and one uniform number, made by
\* every call that stands where the drawing call stands
PairPass ==
    /\ pc = "sa_pair"
    /\ \E v \in BOOLEAN :
          /\ Passing(runs[v])
          /\ IF runs[v].current_state = <<>>
             THEN runs' = [w \in BOOLEAN |->
                              IF SameDraws(runs[w], runs[v]) THEN RunRaise(runs[w])
                              ELSE runs[w]]
             ELSE \E neighbor_state \in get_random_neighbor(cat, runs[v].current_state) :
                  \E p \in {acceptance_probability(runs[v].current_penalty,
                                                   Penalty(neighbor_state),
                                                   runs[v].temperature)} :
                  \E accepted \in Accepts(p.value) :
                     runs' = [w \in BOOLEAN |->
                                 IF SameDraws(runs[w], runs[v])
                                 THEN RunPass(runs[w], neighbor_state, accepted)
                                 ELSE runs[w]]
    /\ UNCHANGED <<pc, pairFrame>>

\* a call that has left its loop returns its record
PairReturn ==
    /\ pc = "sa_pair"
    /\ \E v \in BOOLEAN :
          /\ Leaving(runs[v])
          /\ runs' = [runs EXCEPT ![v] = RunEnd(runs[v])]
    /\ UNCHANGED <<pc, pairFrame>>

PairNext ==
    \/ FillStep \/ FillNextClass \/ FillReturn
    \/ PairEnter \/ PairPass \/ PairReturn

SpecPair == PairInit /\ [][PairNext]_vars

\* both calls have ended
PairEnded == pc = "sa_pair" /\ \A v \in BOOLEAN : runs[v].pc \in {"sa_done", "sa_raised"}

\* C37 (as claimed): on the same initial schedule and the same random
\* draws, run(verbose=True) and run(verbose=False) make the same number of
\* passes and return the same best schedule, penalties and histories.
VerboseChangesNothing ==
    PairEnded =>
        /\ runs[TRUE].iteration = runs[FALSE].iteration
        /\ Len(runs[TRUE].self.acceptance_prob_history) =
               Len(runs[FALSE].self.acceptance_prob_history)
        /\ runs[TRUE].results = runs[FALSE].results
        /\ runs[TRUE].best_state = runs[FALSE].best_state


----------------------------------------------------------------------------
(* Further properties of the penalty evaluator.  The terms are written out *)
(* here from their description, in quarter units, and compared with what   *)
(* calculate returned.                                                      *)

\* the objective with one term switched on
OnlyRoomConflict ==
    [student_conflict |-> FALSE, room_conflict |-> TRUE, capacity |-> FALSE]
OnlyStudentConflict ==
    [student_conflict |-> TRUE, room_conflict |-> FALSE, capacity |-> FALSE]

\* the (room, day, hour) cells of the week
RoomCells(c) ==
    Range(Catalogs[c].rooms) \X (0..LastWeekday) \X (FirstHour..(LastHour - 1))

\* the meetings of a schedule that occupy a cell
Occupants(s, cell) ==
    {k \in 1..Len(s) : /\ s[k].room.code = cell[1]
                       /\ s[k].time_slot.day = cell[2]
                       /\ s[k].time_slot.start_hour <= cell[3]
                       /\ cell[3] < s[k].time_slot.end_hour}

\* the 1-based rank of a class in a student's list: one more than the
\* number of leading entries that are not the class, so length + 1 for a
\* class the list does not hold
RankOf(classes, class_code) ==
    Cardinality({j \in 1..Len(classes) : \A i \in 1..j : classes[i] # class_code}) + 1

\* 1.75, 1.50, 1.25 for the ranks 1, 2, 3 and 1.0 otherwise
RankWeight(rank) ==
    IF rank = 1 THEN 7 ELSE IF rank = 2 THEN 6 ELSE IF rank = 3 THEN 5 ELSE 4

\* the weighted headcount of a class
Headcount(c, class_code) ==
    LET enrolled == Catalogs[c].students[class_code]
        weights == [k \in 1..Len(enrolled) |->
                       RankWeight(RankOf(Catalogs[c].prefs[enrolled[k]], class_code))]
    IN  IF enrolled = <<>> THEN 7 * Catalogs[c].studentCount[class_code]
        ELSE SumOver(1..Len(enrolled), weights)

\* the room-conflict term as described
RoomConflictTerm(c, s) ==
    LET crowded == {cell \in RoomCells(c) : Cardinality(Occupants(s, cell)) > 1}
        charge == [cell \in crowded |->
                      SumOver(Occupants(s, cell),
                              [k \in 1..Len(s) |-> Headcount(c, s[k].course_class)])]
    IN  SumOver(crowded, charge)

\* C38: the room-conflict term calculate returns is the sum, over the cells
\* occupied by more than one meeting, of the weighted headcounts of the
\* meetings in the cell; a schedule without such a cell has a term of 0; and
\* get_priority is the rank of the class in the student's list, length + 1
\* for a class not in it.
RoomTermIsCrowdedCells ==
    /\ pc = "obj_done" =>
          /\ total_penalty[OnlyRoomConflict] = RoomConflictTerm(cat, state)
          /\ (\A cell \in RoomCells(cat) : Cardinality(Occupants(state, cell)) <= 1)
                => total_penalty[OnlyRoomConflict] = 0
    /\ \A sid \in DOMAIN Catalogs[cat].prefs : \A code \in Range(Catalogs[cat].classes) :
          get_priority(cat, sid, code) = RankOf(Catalogs[cat].prefs[sid], code)

\* classes A and B of catalog 1, whose students rank them first and third
\* (A) and second and fourth (B), shared a room for an hour while a third
\* meeting had its cells to itself: 1.75 + 1.25 + 1.50 + 1.0 = 5.5
TwoClassesShareOneHour ==
    /\ pc = "obj_done"
    /\ cat = 1
    /\ Len(state) = 3
    /\ total_penalty[OnlyRoomConflict] = 22
    /\ \E cell \in RoomCells(cat) : Cardinality(Occupants(state, cell)) = 1
    /\ \E cell \in RoomCells(cat) :
          {state[k].course_class : k \in Occupants(state, cell)} = {"A", "B"}


\* TimeSlot.overlaps_with
overlaps_with(self, other) ==
    IF self.day # other.day THEN FALSE
    ELSE ~(self.end_hour <= other.start_hour \/ self.start_hour >= other.end_hour)

\* TimeSlot.get_overlap_duration
get_overlap_duration(self, other) ==
    IF ~overlaps_with(self, other) THEN 0
    ELSE LET overlap_start == Max(self.start_hour, other.start_hour)
             overlap_end == Min(self.end_hour, other.end_hour)
         IN  overlap_end - overlap_start

\* max(0, min(end1, end2) - max(start1, start2))
SharedHours(t1, t2) ==
    Max(0, Min(t1.end_hour, t2.end_hour) - Max(t1.start_hour, t2.start_hour))

\* the students that appear in the list of some class of the catalog
Enrolled(c) ==
    UNION {Range(Catalogs[c].students[code]) : code \in Range(Catalogs[c].classes)}

\* the time-conflict term as described, in quarter units
TimeConflictTerm(c, s) ==
    LET pairs == {q \in Enrolled(c) \X (1..Len(s)) \X (1..Len(s)) :
                    /\ q[2] < q[3]
                    /\ q[1] \in Range(Catalogs[c].students[s[q[2]].course_class])
                    /\ q[1] \in Range(Catalogs[c].students[s[q[3]].course_class])
                    /\ s[q[2]].time_slot.day = s[q[3]].time_slot.day}
        hours == [q \in pairs |-> SharedHours(s[q[2]].time_slot, s[q[3]].time_slot)]
    IN  4 * SumOver(pairs, hours)

\* C39: the time-conflict term calculate returns is the sum, over every
\* student and every pair of distinct meetings on one day of classes the
\* student is enrolled in, of the hours the two meetings share; it is 0 on
\* a catalog without student lists; on two slots of one day the shared
\* hours are what get_overlap_duration returns, on two days it returns 0;
\* and get_overlap_duration and overlaps_with are symmetric.
TimeTermIsSharedHours ==
    pc = "obj_done" =>
        /\ total_penalty[OnlyStudentConflict] = TimeConflictTerm(cat, state)
        /\ Enrolled(cat) = {} => total_penalty[OnlyStudentConflict] = 0
        /\ \A i, j \in 1..Len(state) :
              LET t1 == state[i].time_slot
                  t2 == state[j].time_slot
              IN  /\ overlaps_with(t1, t2) = overlaps_with(t2, t1)
                  /\ get_overlap_duration(t1, t2) = get_overlap_duration(t2, t1)
                  /\ get_overlap_duration(t1, t2) =
                        IF t1.day = t2.day THEN SharedHours(t1, t2) ELSE 0
                  /\ overlaps_with(t1, t2) <=> get_overlap_duration(t1, t2) > 0

\* student s1 of catalog 1 has three meetings of its classes A and B: two
\* share an hour on one day, and one lies at the same hour on another day
StudentMeetsTwiceAtOnce ==
    /\ pc = "obj_done"
    /\ cat = 1
    /\ Len(state) = 3
    /\ \A k \in 1..3 : state[k].course_class \in {"A", "B"}
    /\ total_penalty[OnlyStudentConflict] = 4
    /\ \E i, j \in 1..3 :
          /\ state[i].time_slot.day # state[j].time_slot.day
          /\ SharedHours(state[i].time_slot, state[j].time_slot) > 0


----------------------------------------------------------------------------
(* The caches of GeneticAlgorithm.  memo holds _fitness_cache and           *)
(* _penalty_cache as functions of the fingerprint, the number of optimize   *)
(* calls made on the object, the number of evaluate_fitness and get_penalty *)
(* calls made since the last of them, and what the last call was given and  *)
(* returned.  A fingerprint is the sorted tuple itself: Python's hash of it *)
(* is taken to tell different tuples apart.                                 *)

\* the catalogs optimize is called with: they share their class and room
\* codes and differ in the students of class A
MemoCatalogs == {5, 6}

\* the optimize calls made on one object, and the cached calls within one
MaxRuns == 2
MaxCalls == 3

\* the codes of the catalogs in the order Python gives their strings
CodeOrder == <<"A", "B", "R1", "R2", "Z">>
CodeRank(code) == CHOOSE i \in 1..Len(CodeOrder) : CodeOrder[i] = code

\* a < b for two tuples (code, day, start_hour, end_hour, room code)
TupleLess(a, b) ==
    LET x == <<CodeRank(a[1]), a[2], a[3], a[4], CodeRank(a[5])>>
        y == <<CodeRank(b[1]), b[2], b[3], b[4], CodeRank(b[5])>>
    IN  \E k \in 1..5 : x[k] < y[k] /\ \A j \in 1..(k - 1) : x[j] = y[j]

\* the list hash_data of _get_state_hash
hash_data(s) ==
    [k \in 1..Len(s) |->
        <<s[k].course_class, s[k].time_slot.day, s[k].time_slot.start_hour,
          s[k].time_slot.end_hour, s[k].room.code>>]

\* sorted(list): every element goes behind the elements not greater than it
RECURSIVE sorted(_)
sorted(list) ==
    IF list = <<>> THEN <<>>
    ELSE LET x == list[Len(list)]
             rest == sorted(SubSeq(list, 1, Len(list) - 1))
             n == Cardinality({k \in 1..Len(rest) : ~TupleLess(x, rest[k])})
         IN  SubSeq(rest, 1, n) \o <<x>> \o SubSeq(rest, n + 1, Len(rest))

\* (mutant) the fingerprint is taken of the list as it stands
get_state_hash_unsorted(s) == hash_data(s)

\* GeneticAlgorithm._get_state_hash
get_state_hash(s) == sorted(hash_data(s))

\* the schedules the cached methods are called with: every schedule
\* random_fill can return, with its meetings in any order
MemoSchedules(c) ==
    UNION { {Permuted(s, p) : p \in Bijections(Len(s))} : s \in Fills(c, 1) }

\* a cache with one more entry
Cached(cache, key, value) == [k \in DOMAIN cache \cup {key} |->
                                 IF k = key THEN value ELSE cache[k]]

\* a cache without entries
EmptyCache == [k \in {} |-> 0]

MemoInit ==
    /\ cat \in MemoCatalogs
    /\ pc = "ga_new"
    /\ state = <<>>
    /\ ci = 1
    /\ hours_to_allocate = 0
    /\ total_penalty = Idle
    /\ HCIdle
    /\ results = Idle
    /\ AnnealIdle
    /\ GAIdle
    /\ CrossIdle
    /\ RestartIdle
    /\ RunIdle
    /\ GuiIdle
    /\ NeighborIdle
    /\ heap = Idle
    /\ runs = Idle
    /\ memo = [fitness_cache |-> EmptyCache, penalty_cache |-> EmptyCache,
               optimize_calls |-> 0, calls |-> 0, returned |-> Idle]

memoFrame == <<fillVars, total_penalty, hcVars, results, annealVars, gaVars, crossVars,
               sidewaysVars, restartVars, runVars, gui, neighborVars, heap, runs>>

\* optimize is called, with the classes and rooms of a catalog
MemoOptimize ==
    /\ pc \in {"ga_new", "ga_optimize"}
    /\ memo.optimize_calls < MaxRuns
    /\ cat' \in MemoCatalogs
    /\ memo' = [fitness_cache |-> EmptyCache, penalty_cache |-> EmptyCache,
                optimize_calls |-> memo.optimize_calls + 1, calls |-> 0,
                returned |-> Idle]
    /\ pc' = "ga_optimize"
    /\ UNCHANGED memoFrame

\* optimize calls evaluate_fitness(individual)
MemoEvaluateFitness ==
    /\ pc = "ga_optimize"
    /\ memo.calls < MaxCalls
    /\ \E individual \in MemoSchedules(cat) :
       \E state_hash \in {get_state_hash(individual)} :
          IF state_hash \in DOMAIN memo.fitness_cache
          THEN memo' = [memo EXCEPT
                   !.calls = @ + 1,
                   !.returned = [method |-> "evaluate_fitness", individual |-> individual,
                                 cached |-> TRUE,
                                 value |-> memo.fitness_cache[state_hash]]]
          ELSE LET penalty == calculate(cat, DefaultObjective, individual)
                   fitness == Fitness(penalty)
               IN  memo' = [memo EXCEPT
                       !.fitness_cache = Cached(@, state_hash, fitness),
                       !.penalty_cache = Cached(@, state_hash, penalty),
                       !.calls = @ + 1,
                       !.returned = [method |-> "evaluate_fitness",
                                     individual |-> individual,
                                     cached |-> FALSE, value |-> fitness]]
    /\ UNCHANGED <<cat, pc, memoFrame>>

\* optimize calls get_penalty(individual)
MemoGetPenalty ==
    /\ pc = "ga_optimize"
    /\ memo.calls < MaxCalls
    /\ \E individual \in MemoSchedules(cat) :
       \E state_hash \in {get_state_hash(individual)} :
          IF state_hash \in DOMAIN memo.penalty_cache
          THEN memo' = [memo EXCEPT
                   !.calls = @ + 1,
                   !.returned = [method |-> "get_penalty", individual |-> individual,
                                 cached |-> TRUE,
                                 value |-> memo.penalty_cache[state_hash]]]
          ELSE LET penalty == calculate(cat, DefaultObjective, individual)
               IN  memo' = [memo EXCEPT
                       !.penalty_cache = Cached(@, state_hash, penalty),
                       !.calls = @ + 1,
                       !.returned = [method |-> "get_penalty", individual |-> individual,
                                     cached |-> FALSE, value |-> penalty]]
    /\ UNCHANGED <<cat, pc, memoFrame>>

MemoNext == MemoOptimize \/ MemoEvaluateFitness \/ MemoGetPenalty

SpecMemo == MemoInit /\ [][MemoNext]_vars

\* the meetings of a schedule as a bag of tuples
PlacementBag(s) ==
    LET tuples == hash_data(s)
    IN  [t \in Range(tuples) |-> Cardinality({k \in 1..Len(tuples) : tuples[k] = t})]

\* C40: two schedules have the same fingerprint exactly if they hold the
\* same meetings (class code, day, start, end, room code) as often, in
\* whatever order; within an optimize call every evaluate_fitness returns
\* 1/(1 + calculate(s)) and every get_penalty returns calculate(s), from the
\* cache or not; and every optimize call starts with both caches empty.
MemoIsSound ==
    /\ [](\A s1, s2 \in MemoSchedules(cat) :
            (get_state_hash(s1) = get_state_hash(s2)) <=>
                (PlacementBag(s1) = PlacementBag(s2)))
    /\ []((pc = "ga_optimize" /\ memo.returned # Idle) =>
            memo.returned.value =
                IF memo.returned.method = "evaluate_fitness"
                THEN Fitness(calculate(cat, DefaultObjective, memo.returned.individual))
                ELSE calculate(cat, DefaultObjective, memo.returned.individual))
    /\ [][(memo'.optimize_calls # memo.optimize_calls) =>
            (memo'.fitness_cache = EmptyCache /\ memo'.penalty_cache = EmptyCache)]_vars

\* in a second optimize call, on a catalog where the schedule costs more
\* than it did in the first, get_penalty answered from the cache for a
\* schedule whose meetings stand in another order than the class list
CachedAnswerInSecondRun ==
    /\ pc = "ga_optimize"
    /\ memo.optimize_calls = 2
    /\ cat = 6
    /\ memo.calls >= 2
    /\ memo.returned # Idle
    /\ memo.returned.cached
    /\ memo.returned.method = "get_penalty"
    /\ memo.returned.individual[1].course_class = "B"
    /\ memo.returned.value > 0
    /\ DOMAIN memo.fitness_cache # {}

============================================================================
